---------------------------- MODULE Spec2Model ----------------------------
(***************************************************************************)
(* Humming melody transcriber: the pitch utilities (utils/pitchDetection), *)
(* the RecordingMode component (live capture and file analysis feeding the *)
(* pitchData timeline), the RealTimePitchDetector component, and the two   *)
(* PianoRoll components: their viewports, tooltips and drawings.           *)
(*                                                                         *)
(* Units.  Times are integer milliseconds, frequencies integer millihertz, *)
(* YIN lags (tau) are in 1/20 sample, pixels are integer CSS pixels.       *)
(* null / 0 / '' of the source are 0 (numbers, refs) and "" (strings).     *)
(***************************************************************************)
EXTENDS Integers, Sequences, FiniteSets, TLC

VARIABLES
    \* ---- RecordingMode: React state
    isRecording, isAnalyzing, pitchData,
    \* ---- RecordingMode: refs
    mediaRecorderRef, audioContextRef, analyserRef, startTimeRef,
    animationRef, timerRef,
    \* ---- RecordingMode: the browser objects and queues the handlers act on
    recorderState,   \* id -> "none" | "recording" | "inactive"  (MediaRecorder.state)
    contexts,        \* ids whose AudioContext is open
    tracks,          \* ids whose microphone tracks are live
    stopEvents,      \* ids whose MediaRecorder 'stop' event is queued
    setups,          \* ids awaiting setupAudioContext()
    frames,          \* ids with a requested animation frame (collectPitchData pending)
    intervals,       \* ids whose setInterval timer is live
    timeouts,        \* due times of the pending stopRecording timeouts, oldest first
    uploads,         \* file analyses awaiting arrayBuffer()/decodeAudioData()
    now,             \* Date.now()
    nextId,          \* next producer id (start click or upload)
    writers,         \* ids of the producers whose events pitchData holds
    \* ---- PianoRoll viewports
    zoomRange, dragStart, dragCurrent, isDragging, timeRange, rangeEffect, mounted,
    tooltip,
    \* ---- RealTimePitchDetector: React state, its stream ref, the streams opened
    isListening, currentNote, currentFrequency, mediaStreamRef, streams,
    \* ---- the component (RecordingMode, RealTimePitchDetector) was unmounted
    unmounted,
    \* ---- one call of a pure function: its argument, its result, whether it ran
    arg, result, called

recVars == <<isRecording, isAnalyzing, pitchData, mediaRecorderRef, audioContextRef,
             analyserRef, startTimeRef, animationRef, timerRef, recorderState,
             contexts, tracks, stopEvents, setups, frames, intervals, timeouts,
             uploads, now, nextId, writers>>
viewVars == <<zoomRange, dragStart, dragCurrent, isDragging, timeRange, rangeEffect,
              mounted, tooltip>>
pureVars == <<arg, result, called>>
listenVars == <<isListening, currentNote, currentFrequency, mediaStreamRef, streams,
                unmounted>>
vars == <<recVars, viewVars, pureVars, listenVars>>
\* what the RecordingMode handlers leave alone
idle == <<viewVars, pureVars, listenVars>>

\* ------------------------------------------------------------------ helpers
Min(a, b) == IF a < b THEN a ELSE b
Max(a, b) == IF a > b THEN a ELSE b

RECURSIVE Pow2(_)
Pow2(n) == IF n = 0 THEN 1 ELSE 2 * Pow2(n - 1)

\* ------------------------------------------- numbers: IEEE 754 binary64
\* JavaScript numbers are doubles; each operation below gives the correctly
\* rounded result (round to nearest, ties to even), as +, -, *, / and Math.sqrt do.
\* natural numbers of any size: limbs in base 2^14, least significant first,
\* no leading zero limb
Limb == 16384
LimbBits == 14

RECURSIVE BTrim(_)
BTrim(a) ==
    IF a = <<>> THEN a
    ELSE IF a[Len(a)] = 0 THEN BTrim(SubSeq(a, 1, Len(a) - 1)) ELSE a

RECURSIVE BFromInt(_)
BFromInt(n) == IF n = 0 THEN <<>> ELSE <<n % Limb>> \o BFromInt(n \div Limb)

RECURSIVE BitLenInt(_)
BitLenInt(n) == IF n = 0 THEN 0 ELSE 1 + BitLenInt(n \div 2)

BBitLen(a) == IF a = <<>> THEN 0 ELSE (Len(a) - 1) * LimbBits + BitLenInt(a[Len(a)])

At(a, i) == IF i <= Len(a) THEN a[i] ELSE 0

RECURSIVE BAddFrom(_, _, _, _)
BAddFrom(a, b, i, carry) ==
    IF i > Len(a) /\ i > Len(b) THEN (IF carry = 0 THEN <<>> ELSE <<carry>>)
    ELSE LET x == At(a, i) + At(b, i) + carry
         IN  <<x % Limb>> \o BAddFrom(a, b, i + 1, x \div Limb)
BAdd(a, b) == BAddFrom(a, b, 1, 0)

\* a - b for a >= b
RECURSIVE BSubFrom(_, _, _, _)
BSubFrom(a, b, i, borrow) ==
    IF i > Len(a) THEN <<>>
    ELSE LET x == a[i] - At(b, i) - borrow
         IN  IF x < 0 THEN <<x + Limb>> \o BSubFrom(a, b, i + 1, 1)
                      ELSE <<x>> \o BSubFrom(a, b, i + 1, 0)
BSub(a, b) == BTrim(BSubFrom(a, b, 1, 0))

\* -1, 0, 1 as a < b, a = b, a > b, comparing from limb i down
RECURSIVE BCmpFrom(_, _, _)
BCmpFrom(a, b, i) ==
    IF i = 0 THEN 0
    ELSE IF a[i] < b[i] THEN -1
    ELSE IF a[i] > b[i] THEN 1
    ELSE BCmpFrom(a, b, i - 1)
BCmp(a, b) ==
    IF Len(a) < Len(b) THEN -1
    ELSE IF Len(a) > Len(b) THEN 1
    ELSE BCmpFrom(a, b, Len(a))

\* a * k + carry for a limb k
RECURSIVE BMulLimbFrom(_, _, _, _)
BMulLimbFrom(a, k, i, carry) ==
    IF i > Len(a) THEN (IF carry = 0 THEN <<>> ELSE <<carry>>)
    ELSE LET x == a[i] * k + carry
         IN  <<x % Limb>> \o BMulLimbFrom(a, k, i + 1, x \div Limb)
BMulLimb(a, k) == IF k = 0 THEN <<>> ELSE BMulLimbFrom(a, k, 1, 0)

Zeros(n) == [i \in 1..n |-> 0]

RECURSIVE BMulFrom(_, _, _)
BMulFrom(a, b, j) ==
    IF j > Len(b) THEN <<>>
    ELSE BAdd(Zeros(j - 1) \o BMulLimb(a, b[j]), BMulFrom(a, b, j + 1))
BMul(a, b) == BTrim(BMulFrom(a, b, 1))

\* a * 2^n
BShl(a, n) ==
    IF a = <<>> THEN a
    ELSE Zeros(n \div LimbBits) \o BMulLimb(a, Pow2(n % LimbBits))

\* floor(a / k) for a limb k > 0, from the top limb down: done holds the
\* digits found so far and the remainder
RECURSIVE BDivLimbFrom(_, _, _)
BDivLimbFrom(a, k, done) ==
    IF Len(done.q) = Len(a) THEN done.q
    ELSE LET x == done.rem * Limb + a[Len(a) - Len(done.q)]
         IN  BDivLimbFrom(a, k, [q |-> <<x \div k>> \o done.q, rem |-> x % k])
BDivLimb(a, k) == BTrim(BDivLimbFrom(a, k, [q |-> <<>>, rem |-> 0]))

\* floor(a / 2^n)
BShr(a, n) ==
    LET whole == n \div LimbBits
    IN  IF whole >= Len(a) THEN <<>>
        ELSE BDivLimb(SubSeq(a, whole + 1, Len(a)), Pow2(n % LimbBits))

\* a mod 2^n
BLow(a, n) ==
    LET whole == n \div LimbBits
    IN  IF whole >= Len(a) THEN a
        ELSE BTrim(SubSeq(a, 1, whole) \o <<a[whole + 1] % Pow2(n % LimbBits)>>)

BOdd(a) == a # <<>> /\ a[1] % 2 = 1

\* a double: kind "num" is (-1)^neg * m * 2^e with m = 0 (and e = 0, neg FALSE;
\* the sign of zero is not kept) or 2^52 <= m < 2^53; "inf" is +-Infinity,
\* "nan" is NaN.  Subnormal numbers and overflow are outside the values used.
Precision == 53
Zero == [kind |-> "num", neg |-> FALSE, m |-> <<>>, e |-> 0]
NaN == [kind |-> "nan", neg |-> FALSE, m |-> <<>>, e |-> 0]
Inf(neg) == [kind |-> "inf", neg |-> neg, m |-> <<>>, e |-> 0]

\* q moved to a neighbour by the bits dropped below it: c is -1, 0, 1 as they
\* are less than, equal to, more than half a unit of q; ties go to the even q
Nearest(q, c, sticky) ==
    IF c > 0 \/ (c = 0 /\ (sticky \/ BOdd(q))) THEN BAdd(q, <<1>>) ELSE q

\* the double (-1)^neg * r * 2^e of a significand r of 53 bits, or of 54 bits
\* when rounding carried into a new bit
Carried(neg, r, e) ==
    IF BBitLen(r) > Precision
    THEN [kind |-> "num", neg |-> neg, m |-> BShr(r, 1), e |-> e + 1]
    ELSE [kind |-> "num", neg |-> neg, m |-> r, e |-> e]

\* the double nearest to (-1)^neg * (n + s) * 2^e, ties to even, where the tail
\* s is 0 or, if `sticky`, some 0 < s < 1 (then n has more than 54 bits)
Rounded(neg, n, e, sticky) ==
    IF n = <<>> THEN Zero
    ELSE LET drop == BBitLen(n) - Precision
         IN  IF drop <= 0
             THEN [kind |-> "num", neg |-> neg, m |-> BShl(n, -drop), e |-> e + drop]
             ELSE Carried(neg,
                          Nearest(BShr(n, drop),
                                  BCmp(BLow(n, drop), BShl(<<1>>, drop - 1)), sticky),
                          e + drop)

\* the double of an integer
Num(n) == Rounded(n < 0, BFromInt(IF n < 0 THEN -n ELSE n), 0, FALSE)

IsZero(a) == a.kind = "num" /\ a.m = <<>>

Fneg(a) == IF a.kind = "nan" \/ IsZero(a) THEN a ELSE [a EXCEPT !.neg = ~a.neg]

\* (-1)^xneg * x * 2^e + (-1)^yneg * y * 2^e for x, y > 0
Sum(xneg, x, yneg, y, e) ==
    LET c == BCmp(x, y)
    IN  Rounded(IF xneg = yneg \/ c > 0 THEN xneg ELSE yneg,
                IF xneg = yneg THEN BAdd(x, y)
                ELSE IF c > 0 THEN BSub(x, y) ELSE BSub(y, x),
                e, FALSE)

\* a + b
Fadd(a, b) ==
    IF a.kind = "nan" \/ b.kind = "nan" THEN NaN
    ELSE IF a.kind = "inf"
         THEN (IF b.kind = "inf" /\ b.neg # a.neg THEN NaN ELSE a)
    ELSE IF b.kind = "inf" THEN b
    ELSE IF IsZero(a) THEN b
    ELSE IF IsZero(b) THEN a
    ELSE LET e == IF a.e < b.e THEN a.e ELSE b.e
         IN  Sum(a.neg, BShl(a.m, a.e - e), b.neg, BShl(b.m, b.e - e), e)

\* a - b
Fsub(a, b) == Fadd(a, Fneg(b))

\* a * b
Fmul(a, b) ==
    IF a.kind = "nan" \/ b.kind = "nan" THEN NaN
    ELSE IF a.kind = "inf" \/ b.kind = "inf"
         THEN (IF IsZero(a) \/ IsZero(b) THEN NaN ELSE Inf(a.neg # b.neg))
    ELSE IF IsZero(a) \/ IsZero(b) THEN Zero
    ELSE Rounded(a.neg # b.neg, BMul(a.m, b.m), a.e + b.e, FALSE)

\* the largest q <= guess with b * q <= cur
RECURSIVE Fit(_, _, _)
Fit(cur, b, guess) ==
    IF BCmp(BMulLimb(b, guess), cur) > 0 THEN Fit(cur, b, guess - 1) ELSE guess

\* long division of a by b, whose top limb is at least Limb / 2, from the top
\* limb of a down: done holds the digits found so far and the remainder
RECURSIVE DivDigits(_, _, _)
DivDigits(a, b, done) ==
    IF Len(done.q) = Len(a) THEN done
    ELSE LET cur == BTrim(<<a[Len(a) - Len(done.q)]>> \o done.r)
             n == Len(b)
             guess == (At(cur, n + 1) * Limb + At(cur, n)) \div b[n]
             digit == Fit(cur, b, IF guess > Limb - 1 THEN Limb - 1 ELSE guess)
         IN  DivDigits(a, b, [q |-> <<digit>> \o done.q,
                              r |-> BSub(cur, BMulLimb(b, digit))])

\* the digits and remainder of a long division as the quotient, and whether
\* the division is exact
Quotient(d) == [q |-> BTrim(d.q), exact |-> d.r = <<>>]

\* long division of a by b, whose top limb is at least Limb / 2: the top limbs
\* of a, one fewer than b has, are below b and give no digit
Divided(a, b) ==
    LET k == IF Len(b) - 1 < Len(a) THEN Len(b) - 1 ELSE Len(a)
    IN  DivDigits(a, b, [q |-> Zeros(k), r |-> SubSeq(a, Len(a) - k + 1, Len(a))])

\* floor(a / b) for b > 0, and whether the division is exact
BDiv(a, b) ==
    LET s == Len(b) * LimbBits - BBitLen(b)
    IN  Quotient(Divided(BShl(a, s), BShl(b, s)))

\* the double nearest to (-1)^neg * (the quotient r) * 2^e
RoundedQuotient(neg, r, e) == Rounded(neg, r.q, e, ~r.exact)

\* a / b
Fdiv(a, b) ==
    IF a.kind = "nan" \/ b.kind = "nan" THEN NaN
    ELSE IF a.kind = "inf"
         THEN (IF b.kind = "inf" THEN NaN ELSE Inf(a.neg # b.neg))
    ELSE IF b.kind = "inf" THEN Zero
    ELSE IF IsZero(b) THEN (IF IsZero(a) THEN NaN ELSE Inf(a.neg))
    ELSE IF IsZero(a) THEN Zero
    ELSE RoundedQuotient(a.neg # b.neg, BDiv(Zeros(4) \o a.m, b.m),
                         a.e - b.e - 4 * LimbBits)

\* floor(sqrt(n)) for 0 < n < 2^30 by Newton's iteration from x >= sqrt(n)
RECURSIVE IntRoot(_, _)
IntRoot(n, x) ==
    LET y == (x + n \div x) \div 2
    IN  IF y >= x THEN x ELSE IntRoot(n, y)

\* the largest digit d <= guess with (twice * Limb + d) * d <= cur
RECURSIVE RootDigit(_, _, _)
RootDigit(cur, twice, guess) ==
    IF BCmp(BMulLimb(<<guess>> \o twice, guess), cur) > 0
    THEN RootDigit(cur, twice, guess - 1)
    ELSE guess

\* the square root of a, which has an even number of limbs and a top limb of
\* at least Limb / 4, two limbs at a time from the top: done holds the root of
\* the limbs taken so far and what is left of them, at most twice the root
RECURSIVE RootDigits(_, _)
RootDigits(a, done) ==
    IF 2 * Len(done.root) = Len(a) THEN done
    ELSE LET at == Len(a) - 2 * Len(done.root)
             cur == BTrim(<<a[at - 1], a[at]>> \o done.rest)
             twice == BMulLimb(done.root, 2)
             n == Len(twice)
             guess == IF n = 0 THEN IntRoot(At(cur, 2) * Limb + At(cur, 1), Limb)
                      ELSE ((At(cur, n + 2) * Limb + At(cur, n + 1)) * Limb + At(cur, n))
                               \div (twice[n] * Limb + twice[n - 1])
             digit == RootDigit(cur, twice, IF guess > Limb - 1 THEN Limb - 1 ELSE guess)
         IN  RootDigits(a, [root |-> <<digit>> \o done.root,
                            rest |-> BSub(cur, BMulLimb(<<digit>> \o twice, digit))])

\* the double nearest to sqrt(n) * 2^e, d holding floor(sqrt(n)) and what is
\* left of n
RoundedRoot(d, e) == Rounded(FALSE, d.root, e, d.rest # <<>>)

\* Math.sqrt(a)
Fsqrt(a) ==
    IF a.kind = "nan" THEN NaN
    ELSE IF IsZero(a) THEN Zero
    ELSE IF a.neg THEN NaN
    ELSE IF a.kind = "inf" THEN a
    ELSE LET odd == a.e % 2 = 1
             n == IF odd THEN BShl(a.m, 1) ELSE a.m
             e == IF odd THEN a.e - 1 ELSE a.e
         \* n has 53 or 54 bits: n * 2^58 fills eight limbs and its root has 56 bits
         IN  RoundedRoot(RootDigits(BShl(n, 58), [root |-> <<>>, rest |-> <<>>]),
                         (e \div 2) - 29)

\* -1, 0, 1 as |a| < |b|, |a| = |b|, |a| > |b|; neither is NaN
MagCmp(a, b) ==
    IF a.kind = "inf" THEN (IF b.kind = "inf" THEN 0 ELSE 1)
    ELSE IF b.kind = "inf" THEN -1
    ELSE IF IsZero(a) THEN (IF IsZero(b) THEN 0 ELSE -1)
    ELSE IF IsZero(b) THEN 1
    ELSE IF a.e # b.e THEN (IF a.e < b.e THEN -1 ELSE 1)
    ELSE BCmp(a.m, b.m)

\* -1, 0, 1 as a < b, a = b, a > b; neither is NaN
Fcmp(a, b) ==
    IF a.neg # b.neg THEN (IF a.neg THEN -1 ELSE 1)
    ELSE IF a.neg THEN -MagCmp(a, b) ELSE MagCmp(a, b)

Ordered(a, b) == a.kind # "nan" /\ b.kind # "nan"
\* a < b, a > b, a <= b, a >= b: false when either is NaN
Flt(a, b) == Ordered(a, b) /\ Fcmp(a, b) < 0
Fgt(a, b) == Ordered(a, b) /\ Fcmp(a, b) > 0
Fle(a, b) == Ordered(a, b) /\ Fcmp(a, b) <= 0
Fge(a, b) == Ordered(a, b) /\ Fcmp(a, b) >= 0

\* Math.min(a, b), Math.max(a, b)
Fmin(a, b) == IF ~Ordered(a, b) THEN NaN ELSE IF Fcmp(a, b) <= 0 THEN a ELSE b
Fmax(a, b) == IF ~Ordered(a, b) THEN NaN ELSE IF Fcmp(a, b) >= 0 THEN a ELSE b

RECURSIVE BToInt(_)
BToInt(a) == IF a = <<>> THEN 0 ELSE a[1] + Limb * BToInt(Tail(a))

\* Math.floor(a) of a finite a, as an integer
Ffloor(a) ==
    IF IsZero(a) THEN 0
    ELSE LET whole == IF a.e >= 0 THEN BToInt(BShl(a.m, a.e))
                      ELSE BToInt(BShr(a.m, -a.e))
             cut == a.e < 0 /\ BLow(a.m, -a.e) # <<>>
         IN  IF ~a.neg THEN whole
             ELSE IF cut THEN -whole - 1 ELSE -whole

\* Math.ceil(a) of a finite a, as an integer
Fceil(a) == -Ffloor(Fneg(a))

\* the integer nearest to a, `below` being Math.floor(a): halves go up
UpFromHalf(a, below) ==
    IF Fge(Fsub(a, Num(below)), Fdiv(Num(1), Num(2))) THEN below + 1 ELSE below

\* Math.round(a) of a finite a, as an integer
Fround(a) == UpFromHalf(a, Ffloor(a))

\* ------------------------------------------------------------------ Math.log2
\* Math.log2 is the engine's: the steps below are those of the fdlibm-derived
\* log2 of V8 and SpiderMonkey (FreeBSD e_log2.c and k_log.h), each a double
\* operation.  The constants are given by value and by their two 32-bit words.
\* 0.6666666666666735 (0x3FE55555 0x55555593)
Lg1 == [kind |-> "num", neg |-> FALSE, m |-> <<5523, 5461, 5461, 1365>>, e |-> -53]
\* 0.3999999999940942 (0x3FD99999 0x9997FA04)
Lg2 == [kind |-> "num", neg |-> FALSE, m |-> <<14852, 9823, 6553, 1638>>, e |-> -54]
\* 0.2857142874366239 (0x3FD24924 0x94229359)
Lg3 == [kind |-> "num", neg |-> FALSE, m |-> <<4953, 4234, 4681, 1170>>, e |-> -54]
\* 0.22222198432149784 (0x3FCC71C5 0x1D8E78AF)
Lg4 == [kind |-> "num", neg |-> FALSE, m |-> <<14511, 13881, 7249, 1820>>, e |-> -55]
\* 0.1818357216161805 (0x3FC74664 0x96CB03DE)
Lg5 == [kind |-> "num", neg |-> FALSE, m |-> <<990, 6956, 9801, 1489>>, e |-> -55]
\* 0.15313837699209373 (0x3FC39A09 0xD078C69F)
Lg6 == [kind |-> "num", neg |-> FALSE, m |-> <<1695, 483, 8349, 1254>>, e |-> -55]
\* 0.14798198605116586 (0x3FC2F112 0xDF3E5244)
Lg7 == [kind |-> "num", neg |-> FALSE, m |-> <<4676, 15609, 4397, 1212>>, e |-> -55]
\* 1.4426950407214463 (0x3FF71547 0x65200000)
ivln2hi == [kind |-> "num", neg |-> FALSE, m |-> <<0, 5248, 5238, 1477>>, e |-> -52]
\* 1.6751713164886512e-10 (0x3DE705FC 0x2EEFA200)
ivln2lo == [kind |-> "num", neg |-> FALSE, m |-> <<8704, 15294, 8130, 1473>>, e |-> -85]

\* s * (hfsq + R), R = t2 + t1, t1 = w*(Lg2+w*(Lg4+w*Lg6)),
\* t2 = z*(Lg1+w*(Lg3+w*(Lg5+w*Lg7)))
Log1pSum(s, z, w, hfsq) ==
    Fmul(s, Fadd(hfsq,
                 Fadd(Fmul(z, Fadd(Lg1, Fmul(w, Fadd(Lg3, Fmul(w, Fadd(Lg5, Fmul(w, Lg7))))))),
                      Fmul(w, Fadd(Lg2, Fmul(w, Fadd(Lg4, Fmul(w, Lg6))))))))

\* w = z * z
Log1pZ(s, z, hfsq) == Log1pSum(s, z, Fmul(z, z), hfsq)

\* z = s * s
Log1pS(s, hfsq) == Log1pZ(s, Fmul(s, s), hfsq)

\* 0.5 * f * f
HalfSquare(f) == Fmul(Fmul(Fdiv(Num(1), Num(2)), f), f)

\* k_log1p(f) = log(1 + f) - f + f*f/2, with s = f / (2.0 + f)
k_log1p(f) == Log1pS(Fdiv(f, Fadd(Num(2), f)), HalfSquare(f))

\* SET_LOW_WORD(a, 0): the low 32 bits of the significand cleared
LowWordCleared(a) ==
    IF a.kind # "num" \/ IsZero(a) THEN a ELSE [a EXCEPT !.m = BShl(BShr(a.m, 32), 32)]

\* w = y + val_hi; val_lo += (y - w) + val_hi; return val_lo + w
Log2W(y, val_hi, val_lo, w) == Fadd(Fadd(val_lo, Fadd(Fsub(y, w), val_hi)), w)

Log2Sum(y, val_hi, val_lo) == Log2W(y, val_hi, val_lo, Fadd(y, val_hi))

\* val_hi = hi * ivln2hi; val_lo = (lo + hi) * ivln2lo + lo * ivln2hi
Log2Parts(y, hi, lo) ==
    Log2Sum(y, Fmul(hi, ivln2hi), Fadd(Fmul(Fadd(lo, hi), ivln2lo), Fmul(lo, ivln2hi)))

\* lo = (f - hi) - hfsq + r
Log2Hi(y, f, hfsq, r, hi) == Log2Parts(y, hi, Fadd(Fsub(Fsub(f, hi), hfsq), r))

\* r = k_log1p(f); hi = f - hfsq with its low word cleared
Log2F(y, f, hfsq) == Log2Hi(y, f, hfsq, k_log1p(f), LowWordCleared(Fsub(f, hfsq)))

\* log2 of x * 2^k for x in [sqrt(2)/2, sqrt(2)): y = (double)k, f = x - 1.0
Log2Normal(k, f) == Log2F(Num(k), f, HalfSquare(f))

\* the top 20 bits of the fraction of a finite a # 0: `hx & 0x000fffff`
HighFraction(a) == BToInt(BShr(a.m, 32)) - 1048576

\* whether the significand is normalised to x/2: `(hx + 0x95f64) & 0x100000`
AboveRootTwo(a) == HighFraction(a) + 614244 >= 1048576

\* Math.log2(a); subnormal a are outside the values used
log2(a) ==
    IF a.kind = "nan" THEN NaN
    ELSE IF IsZero(a) THEN Inf(TRUE)
    ELSE IF a.neg THEN NaN
    ELSE IF a.kind = "inf" THEN a
    ELSE IF a = Num(1) THEN Zero
    ELSE Log2Normal(IF AboveRootTwo(a) THEN a.e + Precision ELSE a.e + Precision - 1,
                    Fsub([a EXCEPT !.e = IF AboveRootTwo(a) THEN -Precision
                                         ELSE 1 - Precision], Num(1)))

\* ------------------------------------------------------- utils/pitchDetection
\* null, and the falsy 0 that `detectPitch(buffer) || null` turns into null
NoPitch == 0

\* Pitchfinder.YIN({sampleRate: 44100, threshold: 0.1})
YinSampleRate == 44100

A4 == 440

\* a frequency the model keeps in mHz, as the number of Hz the code holds
Hz(mHz) == Fdiv(Num(mHz), Num(1000))

noteNames == <<"C", "C#", "D", "D#", "E", "F", "F#", "G", "G#", "A", "A#", "B">>

\* the 20 Hz floor of both mappers (`frequency < 20`)
MinAudible == 20

\* `!frequency || frequency < 20` of a number
Inaudible(frequency) ==
    frequency.kind = "nan" \/ IsZero(frequency) \/ Flt(frequency, Num(MinAudible))

\* Math.pow(2, -4.75), the double nearest to 2^-4.75: 0.03716272234383503
PowC0 == [kind |-> "num", neg |-> FALSE, m |-> <<14101, 10438, 12256, 1217>>, e |-> -57]

\* const C0 = A4 * Math.pow(2, -4.75)
C0 == Fmul(Num(A4), PowC0)

\* noteNames[n] + octave, with octave = Math.floor(h / 12) and n = h % 12
noteName(h) == noteNames[(h % 12) + 1] \o ToString(h \div 12)

frequencyToNote(frequency) ==
    IF Inaudible(frequency) THEN ""
    ELSE IF Fgt(frequency, C0)
         THEN noteName(Fround(Fmul(Num(12), log2(Fdiv(frequency, C0)))))
         ELSE ""

\* frequencyToMidi counting from 68 in place of 69
MutMidi_frequencyToMidi(frequency) ==
    IF Inaudible(frequency) THEN 0
    ELSE Fround(Fadd(Fmul(Num(12), log2(Fdiv(frequency, Num(A4)))), Num(68)))

frequencyToMidi(frequency) ==
    IF Inaudible(frequency) THEN 0
    ELSE Fround(Fadd(Fmul(Num(12), log2(Fdiv(frequency, Num(A4)))), Num(69)))

\* The YIN estimator on one frame.  A frame is [tau, len]: tau is the lag YIN
\* settles on for its samples, in 1/20 sample since parabolic interpolation makes
\* it fractional (0: no lag under the threshold), len is the frame's length.
\* The estimator divides the sample rate it was constructed with by the lag;
\* the result is in mHz (1000 mHz * 20 units = 20000).
detectPitch(frame) ==
    IF frame.tau = 0 THEN NoPitch
    ELSE (YinSampleRate * 20000) \div frame.tau

getPitchFromBuffer(buffer) ==
    IF detectPitch(buffer) = 0 THEN NoPitch ELSE detectPitch(buffer)

\* analyser.fftSize: the length of a live frame
FftSize == 4096


\* ------------------------------------------------------------ RecordingMode
\* bounds of the model
MaxProducers == 2
MaxEvents == 3
MaxTicks == 1
\* stopRecording is taken while fewer than MaxTimeouts of its timeouts are pending
MaxTimeouts == 2

\* accepted band of line 72 / line 180, in Hz (exclusive at both ends)
BandLow == 80
BandHigh == 2000
\* handleFileUpload's chunkSize and hopSize
chunkSize == 4096
hopSize == 1024
\* setTimeout(..., 500) of stopRecording, ms
CleanupDelay == 500
\* `elapsed >= 60` of the recording timer, seconds
AutoStop == 60

Ids == 1..MaxProducers
\* lags of live frames: silence, 441 Hz, exactly 2000 Hz (at 44.1 kHz)
LiveTaus == {0, 2000, 441}
\* decoded files: length in samples, sample rate, the lag of each hop's frame
\* sampleRate of an AudioContext / decoded AudioBuffer
SampleRates == {44100, 48000}
Files == {[len |-> 4096, rate |-> 44100, taus |-> <<2000, 2000, 2000>>],
          [len |-> 6145, rate |-> 48000, taus |-> <<2000, 0, 1500>>],
          [len |-> 6145, rate |-> 44100, taus |-> <<12000, 441, 2000>>]}

MutBand_accepted(frequency) == frequency # NoPitch

\* `frequency && frequency > 80 && frequency < 2000`
accepted(frequency) ==
    /\ frequency # NoPitch
    /\ frequency > BandLow * 1000
    /\ frequency < BandHigh * 1000

\* the piano range
MidiLow == 21
MidiHigh == 108

\* equal-temperament frequencies of midi 108..119, in mHz
TopOctave ==
    <<4186009, 4434922, 4698636, 4978032, 5274041, 5587652,
      5919911, 6271927, 6644875, 7040000, 7458620, 7902133>>

\* num / den of integers, den > 0, to the nearest integer: halves round up
RoundDiv(num, den) == (2 * num + den) \div (2 * den)

\* frequency_of(midi) = 440 * 2^((midi - 69) / 12), to the nearest mHz
frequencyOf(midi) == RoundDiv(TopOctave[(midi % 12) + 1], Pow2(9 - (midi \div 12)))

\* the frequencies the frames and timelines below hold, in mHz: the estimator's
\* for the lags of the live frames and of the files' frames, and those of the
\* piano's notes
TimelineFreqs ==
    {detectPitch([tau |-> tau, len |-> FftSize]) : tau \in LiveTaus}
        \cup UNION {{detectPitch([tau |-> file.taus[i], len |-> FftSize]) : i \in DOMAIN file.taus} :
                        file \in Files}
        \cup {frequencyOf(midi) : midi \in MidiLow..MidiHigh}

\* frequencyToNote(frequency) and frequencyToMidi(frequency) of these
\* frequencies: the two calls of the object literal below, made once for each
Mapped ==
    [frequency \in TimelineFreqs |->
        [note |-> frequencyToNote(Hz(frequency)), midi |-> frequencyToMidi(Hz(frequency))]]

\* the object literal pushed onto pitchData, of the two calls' results
EventOf(time, frequency, mapped) ==
    [time |-> time, frequency |-> frequency, note |-> mapped.note, midi |-> mapped.midi]

PitchEvent(time, frequency) == EventOf(time, frequency, Mapped[frequency])

\* lines 69-83 of collectPitchData on the frame the analyser holds
Collected(prev, frame, startTime) ==
    LET frequency == getPitchFromBuffer(frame)
    IN  IF accepted(frequency)
        THEN Append(prev, PitchEvent(now - startTime, frequency))
        ELSE prev

\* the producers of the timeline after producer id appended to prev, or did not
Writers(prev, next, id) == IF next = prev THEN writers ELSE writers \cup {id}

LiveFrame(tau) == [tau |-> tau, len |-> FftSize]

\* a frame that would append is taken only while the timeline is below MaxEvents
Fits(prev, tau) ==
    accepted(getPitchFromBuffer(LiveFrame(tau))) => Len(prev) < MaxEvents

\* everything of RecordingMode but the timeline
InitRefs ==
    /\ isRecording = FALSE /\ isAnalyzing = FALSE
    /\ mediaRecorderRef = 0 /\ audioContextRef = 0 /\ analyserRef = 0
    /\ startTimeRef = 0 /\ animationRef = 0 /\ timerRef = 0
    /\ recorderState = [i \in Ids |-> "none"]
    /\ contexts = {} /\ tracks = {} /\ setups = {} /\ frames = {}
    /\ stopEvents = {}
    /\ intervals = {} /\ timeouts = <<>> /\ uploads = {}
    /\ now = 0 /\ nextId = 1 /\ writers = {}

InitRec == pitchData = <<>> /\ InitRefs

\* a nullable value: null is the empty sequence, a value v is <<v>>
Null == <<>>
Some(v) == <<v>>
\* `x ?? d`
OrElse(x, d) == IF x = Null THEN d ELSE x[1]

\* useState initial values of the two piano rolls, before either is mounted
InitView ==
    /\ zoomRange = [minMidi |-> Null, maxMidi |-> Null]
    /\ dragStart = Null /\ dragCurrent = Null /\ isDragging = FALSE
    /\ timeRange = [start |-> Zero, end |-> Zero] /\ rangeEffect = "idle"
    /\ mounted = FALSE
    /\ tooltip = [x |-> 0, y |-> 0, note |-> "", frequency |-> 0, time |-> 0,
                  visible |-> FALSE]

InitPure == arg = 0 /\ result = 0 /\ called = FALSE

\* useState / useRef initial values of RealTimePitchDetector; no component
\* has been unmounted
InitListen ==
    /\ isListening = FALSE /\ currentNote = "" /\ currentFrequency = 0
    /\ mediaStreamRef = 0 /\ streams = {} /\ unmounted = FALSE

\* a state setter called with value v: React drops it once the component is
\* unmounted
SetState(old, v) == IF unmounted THEN old ELSE v

\* startRecording up to its await: lines 33-39, the button showing "start"
ClickStart ==
    /\ ~unmounted /\ ~isRecording /\ ~isAnalyzing
    /\ nextId <= MaxProducers
    /\ pitchData' = <<>>
    /\ writers' = {}
    /\ contexts' = contexts \cup {nextId}
    /\ setups' = setups \cup {nextId}
    /\ nextId' = nextId + 1
    /\ UNCHANGED idle
    /\ UNCHANGED <<isRecording, isAnalyzing, mediaRecorderRef, audioContextRef,
                   analyserRef, startTimeRef, animationRef, timerRef, recorderState,
                   tracks, stopEvents, frames, intervals, timeouts, uploads, now>>

\* startRecording after setupAudioContext() resolved: lines 41-102, with the
\* first, synchronous call of collectPitchData on a frame of lag tau
MicGranted(s, tau) ==
    /\ s \in setups
    /\ Fits(pitchData, tau)
    /\ setups' = setups \ {s}
    /\ tracks' = tracks \cup {s}
    /\ audioContextRef' = s /\ analyserRef' = s /\ mediaRecorderRef' = s
    /\ recorderState' = [recorderState EXCEPT ![s] = "recording"]
    /\ isRecording' = SetState(isRecording, TRUE)
    /\ startTimeRef' = now
    /\ pitchData' = SetState(pitchData, Collected(pitchData, LiveFrame(tau), now))
    /\ writers' = Writers(pitchData, pitchData', s)
    /\ animationRef' = s /\ frames' = frames \cup {s}
    /\ timerRef' = s /\ intervals' = intervals \cup {s}
    /\ UNCHANGED idle
    /\ UNCHANGED <<isAnalyzing, contexts, stopEvents, timeouts, uploads, now, nextId>>

\* getUserMedia rejected: the catch of lines 104-107 (setError only)
MicDenied(s) ==
    /\ s \in setups
    /\ setups' = setups \ {s}
    /\ UNCHANGED idle
    /\ UNCHANGED <<isRecording, isAnalyzing, pitchData, writers, mediaRecorderRef,
                   audioContextRef, analyserRef, startTimeRef, animationRef, timerRef,
                   recorderState, contexts, tracks, stopEvents, frames, intervals,
                   timeouts, uploads, now, nextId>>

\* collectPitchData run by requestAnimationFrame for session s
collectPitchData(s, tau) ==
    /\ s \in frames
    /\ Fits(pitchData, tau)
    /\ IF analyserRef = 0
       THEN /\ frames' = frames \ {s}
            /\ UNCHANGED <<pitchData, animationRef, writers>>
       ELSE /\ pitchData' = SetState(pitchData,
                                     Collected(pitchData, LiveFrame(tau), startTimeRef))
            /\ writers' = Writers(pitchData, pitchData', s)
            /\ IF mediaRecorderRef # 0 /\ recorderState[mediaRecorderRef] = "recording"
               THEN animationRef' = s /\ frames' = frames
               ELSE animationRef' = animationRef /\ frames' = frames \ {s}
    /\ UNCHANGED idle
    /\ UNCHANGED <<isRecording, isAnalyzing, mediaRecorderRef, audioContextRef,
                   analyserRef, startTimeRef, timerRef, recorderState, contexts,
                   tracks, stopEvents, setups, intervals, timeouts, uploads, now, nextId>>

\* the body of stopRecording (lines 110-138).  mediaRecorder.stop() makes the
\* recorder inactive at once and queues its 'stop' event; setTimeout queues the
\* cleanup behind the timeouts already pending
stopRecording ==
    /\ Len(timeouts) < MaxTimeouts
    /\ isRecording' = SetState(isRecording, FALSE)
    /\ IF timerRef # 0
       THEN intervals' = intervals \ {timerRef} /\ timerRef' = 0
       ELSE UNCHANGED <<intervals, timerRef>>
    /\ IF mediaRecorderRef # 0 /\ recorderState[mediaRecorderRef] = "recording"
       THEN /\ recorderState' = [recorderState EXCEPT ![mediaRecorderRef] = "inactive"]
            /\ stopEvents' = stopEvents \cup {mediaRecorderRef}
       ELSE UNCHANGED <<recorderState, stopEvents>>
    /\ timeouts' = Append(timeouts, now + CleanupDelay)
    /\ UNCHANGED idle
    /\ UNCHANGED <<isAnalyzing, pitchData, writers, mediaRecorderRef, audioContextRef,
                   analyserRef, startTimeRef, animationRef, contexts, tracks, setups,
                   frames, uploads, now, nextId>>

\* mediaRecorder.onstop of session s (lines 54-58), run for the queued 'stop'
\* event: the microphone tracks of that session's stream are stopped (the blob
\* it stores is only offered for download)
RecorderStopped(s) ==
    /\ s \in stopEvents
    /\ stopEvents' = stopEvents \ {s}
    /\ tracks' = tracks \ {s}
    /\ UNCHANGED idle
    /\ UNCHANGED <<isRecording, isAnalyzing, pitchData, writers, mediaRecorderRef,
                   audioContextRef, analyserRef, startTimeRef, animationRef, timerRef,
                   recorderState, contexts, setups, frames, intervals, timeouts,
                   uploads, now, nextId>>

\* the button showing "stop" (disabled while isAnalyzing)
ClickStop ==
    /\ ~unmounted /\ isRecording /\ ~isAnalyzing
    /\ stopRecording

\* the setInterval callback of session s: lines 94-102 (recordingTime, which is
\* only displayed, is not kept)
TimerTick(s) ==
    /\ s \in intervals
    /\ IF now - startTimeRef >= AutoStop * 1000
       THEN stopRecording
       ELSE UNCHANGED vars

\* the setTimeout callback of stopRecording: lines 123-137.  The timeouts all
\* have the same delay, so the oldest pending one is the first to come due
Cleanup ==
    /\ timeouts # <<>> /\ now >= Head(timeouts)
    /\ timeouts' = Tail(timeouts)
    /\ IF animationRef # 0
       THEN frames' = frames \ {animationRef} /\ animationRef' = 0
       ELSE UNCHANGED <<frames, animationRef>>
    /\ IF audioContextRef # 0
       THEN contexts' = contexts \ {audioContextRef} /\ audioContextRef' = 0
       ELSE UNCHANGED <<contexts, audioContextRef>>
    /\ isAnalyzing' = SetState(isAnalyzing, FALSE)
    /\ UNCHANGED idle
    /\ UNCHANGED <<isRecording, pitchData, writers, mediaRecorderRef, analyserRef,
                   startTimeRef, timerRef, recorderState, tracks, stopEvents, setups,
                   intervals, uploads, now, nextId>>

\* the offsets handleFileUpload's loop visits: for (i = 0; i < length - chunkSize; i += hopSize)
RECURSIVE ChunkOffsets(_, _)
ChunkOffsets(i, length) ==
    IF i < length - chunkSize THEN <<i>> \o ChunkOffsets(i + hopSize, length) ELSE <<>>

\* the length of channelData.slice(i, i + chunkSize)
SliceLength(length, i) == Max(Min(i + chunkSize, length) - Min(i, length), 0)

\* channelData.slice(i, i + chunkSize) of a file
Chunk(file, i) ==
    [tau |-> file.taus[(i \div hopSize) + 1], len |-> SliceLength(file.len, i)]

\* `i / sampleRate`, in ms
ChunkTime(i, sampleRate) == (i * 1000) \div sampleRate

\* lines 176-192: newPitchData from the offsets still to visit
RECURSIVE Analyzed(_, _)
Analyzed(offsets, file) ==
    IF offsets = <<>> THEN <<>>
    ELSE LET i == Head(offsets)
             frequency == getPitchFromBuffer(Chunk(file, i))
         IN  (IF accepted(frequency)
              THEN <<PitchEvent(ChunkTime(i, file.rate), frequency)>>
              ELSE <<>>) \o Analyzed(Tail(offsets), file)

\* handleFileUpload up to its awaits: lines 154-166, the input enabled; the
\* AudioContext of line 165 is open from here on
Upload(file) ==
    /\ ~unmounted /\ ~isRecording /\ ~isAnalyzing
    /\ nextId <= MaxProducers
    /\ isAnalyzing' = TRUE
    /\ pitchData' = <<>>
    /\ writers' = {}
    /\ contexts' = contexts \cup {nextId}
    /\ uploads' = uploads \cup {[id |-> nextId, file |-> file]}
    /\ nextId' = nextId + 1
    /\ UNCHANGED idle
    /\ UNCHANGED <<isRecording, mediaRecorderRef, audioContextRef, analyserRef,
                   startTimeRef, animationRef, timerRef, recorderState,
                   tracks, stopEvents, setups, frames, intervals, timeouts, now>>

\* handleFileUpload after decodeAudioData resolved: lines 169-196, closing its
\* AudioContext (line 195)
FileDecoded(job) ==
    /\ job \in uploads
    /\ uploads' = uploads \ {job}
    /\ pitchData' = SetState(pitchData, Analyzed(ChunkOffsets(0, job.file.len), job.file))
    /\ writers' = IF unmounted THEN writers
                  ELSE IF pitchData' = <<>> THEN {} ELSE {job.id}
    /\ contexts' = contexts \ {job.id}
    /\ isAnalyzing' = SetState(isAnalyzing, FALSE)
    /\ UNCHANGED idle
    /\ UNCHANGED <<isRecording, mediaRecorderRef, audioContextRef, analyserRef,
                   startTimeRef, animationRef, timerRef, recorderState,
                   tracks, stopEvents, setups, frames, intervals, timeouts, now, nextId>>

\* arrayBuffer()/decodeAudioData rejected: the catch of lines 197-201, which
\* leaves the AudioContext of line 165 open
FileFailed(job) ==
    /\ job \in uploads
    /\ uploads' = uploads \ {job}
    /\ isAnalyzing' = SetState(isAnalyzing, FALSE)
    /\ UNCHANGED idle
    /\ UNCHANGED <<isRecording, pitchData, writers, mediaRecorderRef, audioContextRef,
                   analyserRef, startTimeRef, animationRef, timerRef, recorderState,
                   contexts, tracks, stopEvents, setups, frames, intervals, timeouts,
                   now, nextId>>

\* time passes: a stretch long enough for every pending timer to come due
\* (the auto-stop limit), at most MaxTicks times
Tick ==
    /\ now \div (AutoStop * 1000) < MaxTicks
    /\ now' = now + AutoStop * 1000
    /\ UNCHANGED idle
    /\ UNCHANGED <<isRecording, isAnalyzing, pitchData, writers, mediaRecorderRef,
                   audioContextRef, analyserRef, startTimeRef, animationRef, timerRef,
                   recorderState, contexts, tracks, stopEvents, setups, frames, intervals,
                   timeouts, uploads, nextId>>

Init == InitRec /\ InitView /\ InitPure /\ InitListen

Next ==
    \/ ClickStart
    \/ \E s \in Ids, tau \in LiveTaus : MicGranted(s, tau)
    \/ \E s \in Ids : MicDenied(s)
    \/ \E s \in Ids, tau \in LiveTaus : collectPitchData(s, tau)
    \/ ClickStop
    \/ \E s \in Ids : RecorderStopped(s)
    \/ \E s \in Ids : TimerTick(s)
    \/ Cleanup
    \/ \E file \in Files : Upload(file)
    \/ \E job \in uploads : FileDecoded(job)
    \/ \E job \in uploads : FileFailed(job)
    \/ Tick

Spec == Init /\ [][Next]_vars

\* the cleanup of the effect of lines 204-216: RecordingMode is unmounted (the
\* mode is switched away); the refs are read as they are then
Unmount ==
    /\ ~unmounted
    /\ unmounted' = TRUE
    /\ frames' = IF animationRef # 0 THEN frames \ {animationRef} ELSE frames
    /\ intervals' = IF timerRef # 0 THEN intervals \ {timerRef} ELSE intervals
    /\ contexts' = IF audioContextRef # 0 THEN contexts \ {audioContextRef} ELSE contexts
    /\ UNCHANGED <<viewVars, pureVars, isListening, currentNote, currentFrequency,
                   mediaStreamRef, streams>>
    /\ UNCHANGED <<isRecording, isAnalyzing, pitchData, writers, mediaRecorderRef,
                   audioContextRef, analyserRef, startTimeRef, animationRef, timerRef,
                   recorderState, tracks, stopEvents, setups, timeouts, uploads, now, nextId>>

\* RecordingMode with its unmount
NextTeardown == Next \/ Unmount
SpecTeardown == Init /\ [][NextTeardown]_vars


\* ------------------------------------------------- claims on RecordingMode
Recording == {s \in Ids : recorderState[s] = "recording"}

\* C1: the events of pitchData are in non-decreasing time order after any
\* sequence of start, frame, stop and upload operations.
C1_TimeOrdered ==
    \A i \in 1..(Len(pitchData) - 1) : pitchData[i].time <= pitchData[i + 1].time

\* C2: an append whose time is less than the time of the last event is rejected:
\* no step grows pitchData by an event older than the event it ended with.
C2_OutOfOrderRejected ==
    [][(/\ pitchData # <<>>
        /\ Len(pitchData') = Len(pitchData) + 1
        /\ SubSeq(pitchData', 1, Len(pitchData)) = pitchData)
       => pitchData'[Len(pitchData')].time >= pitchData[Len(pitchData)].time]_vars

\* C3: at most one producer writes the timeline: no file analysis while a
\* recording is active or being set up, no recording while a file analysis
\* runs, never two recordings (or two analyses) at once.
C3_SingleProducer ==
    /\ Cardinality(uploads) <= 1
    /\ Cardinality(Recording) <= 1
    /\ uploads # {} => (Recording = {} /\ setups = {})

\* C4: once a new recording or analysis has begun (the latest producer has its
\* microphone, or its file is being analysed), pitchData holds only events
\* produced by that session.
C4_OnlyCurrentSession ==
    LET cur == nextId - 1
    IN  (/\ cur >= 1
         /\ \/ recorderState[cur] # "none"
            \/ \E job \in uploads : job.id = cur)
        => writers \subseteq {cur}

\* C5: every event of pitchData, from live capture or file analysis, has a
\* frequency in the accepted band 80..2000 Hz; other frames add nothing.
C5_EventsInBand ==
    \A i \in DOMAIN pitchData :
        /\ pitchData[i].frequency >= BandLow * 1000
        /\ pitchData[i].frequency <= BandHigh * 1000

\* C5 witness: a file whose first two frames are out of band (73.5 Hz, 2000 Hz)
\* and whose third is voiced in band was analysed: one event, at the third offset.
C5_Witness ==
    /\ uploads = {} /\ ~isAnalyzing
    /\ Len(pitchData) = 1
    /\ pitchData[1].time = (2 * hopSize * 1000) \div 44100
    /\ pitchData[1].frequency = 441000


\* ------------------------------------------------- single calls of the utilities
\* bounds of the inputs
MaxFreqSteps == 8400
MaxTauSteps == 130
MaxFileLen == 8200

\* the half-semitone edges tried, counted from A4: down to the one under 20 Hz
\* (n = -54, 18.9 Hz) and up to the one over 2000 Hz (n = 27, 2033 Hz)
MaxEdgesBelow == 54
MaxEdgesAbove == 27
\* the doubles tried on either side of the last double under an edge
MaxEdgeUlps == 6

\* the last double under A4 * 2^((k - 0.5)/12), k = 0..11: the half-semitone
\* edges of the octave from 427.5 Hz, where round(12 * log2(f / A4)) steps to k.
\* The edges are irrational, so a double is over an edge exactly when it is
\* over the entry, and the edge an octave higher has the entry's significand.
EdgeBelow ==
    <<
      \* 427.47405410758654
      [kind |-> "num", neg |-> FALSE, m |-> <<2534, 9994, 14683, 1709>>, e |-> -44],
      \* 452.89298412313644
      [kind |-> "num", neg |-> FALSE, m |-> <<2942, 9953, 9370, 1811>>, e |-> -44],
      \* 479.82340237271336
      [kind |-> "num", neg |-> FALSE, m |-> <<9227, 8157, 4810, 1919>>, e |-> -44],
      \* 508.3551866238001
      [kind |-> "num", neg |-> FALSE, m |-> <<4907, 8365, 6893, 2033>>, e |-> -44],
      \* 538.5835590540482
      [kind |-> "num", neg |-> FALSE, m |-> <<9056, 1033, 2738, 1077>>, e |-> -43],
      \* 570.6094040464442
      [kind |-> "num", neg |-> FALSE, m |-> <<3129, 15594, 3584, 1141>>, e |-> -43],
      \* 604.5396048815592
      [kind |-> "num", neg |-> FALSE, m |-> <<14456, 12660, 1297, 1209>>, e |-> -43],
      \* 640.4874004505624
      [kind |-> "num", neg |-> FALSE, m |-> <<6597, 2260, 15971, 1280>>, e |-> -43],
      \* 678.5727631794939
      [kind |-> "num", neg |-> FALSE, m |-> <<8764, 4978, 2384, 1357>>, e |-> -43],
      \* 718.9227994260839
      [kind |-> "num", neg |-> FALSE, m |-> <<7778, 4777, 13854, 1437>>, e |-> -43],
      \* 761.6721736854058
      [kind |-> "num", neg |-> FALSE, m |-> <<8294, 12899, 5641, 1523>>, e |-> -43],
      \* 806.9635580201107
      [kind |-> "num", neg |-> FALSE, m |-> <<356, 14241, 15189, 1613>>, e |-> -43] >>

\* the last double under the n-th half-semitone edge A4 * 2^((n - 0.5)/12)
EdgeDouble(n) ==
    [EdgeBelow[(n % 12) + 1] EXCEPT !.e = EdgeBelow[(n % 12) + 1].e + (n \div 12)]

\* the double j places above a (below, for j < 0) in the same binade
Neighbour(a, j) ==
    [a EXCEPT !.m = IF j < 0 THEN BSub(a.m, BFromInt(-j)) ELSE BAdd(a.m, BFromInt(j))]

\* the doubles on either side of every half-semitone edge
EdgeInputs ==
    {Neighbour(EdgeDouble(n), j) :
        n \in (-MaxEdgesBelow)..MaxEdgesAbove, j \in (-MaxEdgeUlps)..MaxEdgeUlps}

\* frequencies 0 .. 2100 Hz in steps of 0.25 Hz, and the edges
FreqInputs == {Hz(250 * k) : k \in 0..MaxFreqSteps} \cup EdgeInputs
\* frames: silent, or with a lag of 20 .. 650 samples in steps of 5 samples
FrameInputs ==
    [rate : SampleRates, tau : {0} \cup {100 * k : k \in 4..MaxTauSteps},
     len : {FftSize, FftSize \div 2}]
\* decoded buffers of every length up to MaxFileLen
BufferInputs == [len : 0..MaxFileLen, rate : SampleRates]

InitCall == InitRec /\ InitView /\ InitListen /\ result = 0 /\ called = FALSE

\* the Note Mapper on one frequency (a double, in Hz), as collectPitchData
\* builds an event from it
InitMapper == InitCall /\ arg \in FreqInputs
MapFrequency ==
    /\ ~called /\ called' = TRUE
    /\ result' = [time |-> 0, frequency |-> arg, note |-> frequencyToNote(arg),
                   midi |-> frequencyToMidi(arg)]
    /\ UNCHANGED <<arg, recVars, viewVars, listenVars>>
NextMapper == MapFrequency
SpecMapper == InitMapper /\ [][NextMapper]_vars

\* the estimator on one frame of a stream sampled at arg.rate
InitEstimator == InitCall /\ arg \in FrameInputs
Estimate ==
    /\ ~called /\ called' = TRUE
    /\ result' = getPitchFromBuffer([tau |-> arg.tau, len |-> arg.len])
    /\ UNCHANGED <<arg, recVars, viewVars, listenVars>>
NextEstimator == Estimate
SpecEstimator == InitEstimator /\ [][NextEstimator]_vars

\* the chunks handleFileUpload's loop hands to the estimator for one buffer
Chunks(length, sampleRate) ==
    LET offsets == ChunkOffsets(0, length)
    IN  [k \in 1..Len(offsets) |->
            [offset |-> offsets[k], len |-> SliceLength(length, offsets[k]),
             time |-> ChunkTime(offsets[k], sampleRate)]]

InitFrames == InitCall /\ arg \in BufferInputs
SliceBuffer ==
    /\ ~called /\ called' = TRUE
    /\ result' = Chunks(arg.len, arg.rate)
    /\ UNCHANGED <<arg, recVars, viewVars, listenVars>>
NextFrames == SliceBuffer
SpecFrames == InitFrames /\ [][NextFrames]_vars

\* the label of a MIDI number: pitch class midi mod 12 (0 = C), octave floor(midi/12) - 1
NoteOfMidi(midi) == noteNames[(midi % 12) + 1] \o ToString((midi \div 12) - 1)

\* f >= A4 * 2^((n - 0.5)/12), i.e. 12*log2(f/A4) >= n - 0.5, in exact arithmetic
AtLeastSemitone(f, n) == Fgt(f, EdgeDouble(n))

\* round(12 * log2(f / A4)) in exact arithmetic for a double f > 0, searched from n
RECURSIVE SemitoneSearch(_, _)
SemitoneSearch(f, n) ==
    IF AtLeastSemitone(f, n + 1) THEN SemitoneSearch(f, n + 1)
    ELSE IF ~AtLeastSemitone(f, n) THEN SemitoneSearch(f, n - 1)
    ELSE n

\* round(12*log2(frequency/440) + 69) in exact arithmetic
ExactMidi(f) == SemitoneSearch(f, 0) + 69

\* an accepted frequency, in Hz: above 80 and below 2000
InBand(f) == Fgt(f, Num(BandLow)) /\ Flt(f, Num(BandHigh))

\* C6: for every event of an accepted frequency, midi is round(12*log2(f/440) + 69)
\* and the note is the pitch class of midi followed by the octave floor(midi/12) - 1.
C6_NoteMatchesMidi ==
    (called /\ InBand(arg)) =>
        /\ result.midi = ExactMidi(arg)
        /\ result.note = NoteOfMidi(result.midi)

\* the frames with start offset k*H, k >= 0, k*H + N <= length
FullFrameCount(length) ==
    IF length < chunkSize THEN 0 ELSE ((length - chunkSize) \div hopSize) + 1

\* C7: file analysis processes exactly the frames at offsets k*H with
\* k*H + N <= L, in increasing k, each of length N and start time k*H/rate.
C7_EveryFullFrame ==
    called =>
        /\ Len(result) = FullFrameCount(arg.len)
        /\ \A k \in 1..Len(result) :
              /\ result[k].offset = (k - 1) * hopSize
              /\ result[k].len = chunkSize
              /\ result[k].time = ((k - 1) * hopSize * 1000) \div arg.rate

\* C8: the frequency reported for a frame is the sample rate of the stream that
\* produced the frame divided by the lag.
C8_StreamSampleRate ==
    (called /\ result # NoPitch) => result = (arg.rate * 20000) \div arg.tau


\* --------------------------------------------------- the piano rolls' viewports
\* bounds of the viewport models
MaxViewEvents == 3
MaxGridY == 2
MaxMidiDrop == 24

CanvasHeight == 256
MinDrag == 20
MinMidiRange == 24
SliderStep == 10

\* `(Date.now() - startTimeRef.current) / 1000`: the time in seconds, a double,
\* of an event whose time the model keeps in ms
Seconds(ms) == Fdiv(Num(ms), Num(1000))

\* the literal 0.1 of the slider handlers
MinTimeSpan == Fdiv(Num(1), Num(10))

\* the timeline of the events of the given <<time, frequency>> pairs
TimelineOf(stamps) ==
    [i \in 1..Len(stamps) |-> PitchEvent(stamps[i][1], stamps[i][2])]

\* timelines handed to a piano roll as its pitchData prop
ViewTimelines ==
    { TimelineOf(stamps) : stamps \in
        { <<>>,
          << <<0, 261626>> >>,
          << <<46, 130813>>, <<92, 1046502>> >>,
          << <<0, 261626>>, <<250, 293665>> >>,
          << <<0, 195998>>, <<120, 783991>>, <<400, 440000>> >>,
          << <<0, 440000>>, <<20, 441000>>, <<400, 261626>> >>,
          << <<0, 329628>>, <<400, 130813>> >> } }
\* events a growing timeline gains: gap to the last event, frequency
AppendGaps == {150}
AppendFreqs == {783991}
\* pointer positions relative to the canvas
PointerXs == {0, 10, 40}
PointerYs == {(k * CanvasHeight) \div MaxGridY : k \in 0..MaxGridY}

RECURSIVE MaxOver(_, _)
\* Math.max(...data.map(d => d[field]))
MaxOver(data, field) ==
    IF Len(data) = 1 THEN data[1][field]
    ELSE Max(data[1][field], MaxOver(Tail(data), field))
RECURSIVE MinOver(_, _)
\* Math.min(...data.map(d => d[field]))
MinOver(data, field) ==
    IF Len(data) = 1 THEN data[1][field]
    ELSE Min(data[1][field], MinOver(Tail(data), field))

\* the parent re-renders a piano roll with one more event in pitchData
Grown(data, gap, frequency) ==
    Append(data, PitchEvent((IF data = <<>> THEN 0 ELSE data[Len(data)].time) + gap,
                            frequency))

InitRoll ==
    InitRefs /\ pitchData \in ViewTimelines /\ InitView /\ InitPure /\ InitListen

\* ---- PianoRoll.tsx: pitch zoom by drag selection
MountPianoRoll ==
    /\ ~mounted /\ mounted' = TRUE
    /\ UNCHANGED <<tooltip, zoomRange, dragStart, dragCurrent, isDragging, timeRange,
                   rangeEffect>>
    /\ UNCHANGED <<recVars, pureVars, listenVars>>

TimelineGrows(gap, frequency) ==
    /\ mounted /\ Len(pitchData) < MaxViewEvents
    /\ pitchData' = Grown(pitchData, gap, frequency)
    /\ UNCHANGED <<isRecording, isAnalyzing, mediaRecorderRef, audioContextRef,
                   analyserRef, startTimeRef, animationRef, timerRef, recorderState,
                   contexts, tracks, stopEvents, setups, frames, intervals, timeouts, uploads,
                   now, nextId, writers>>
    /\ UNCHANGED idle

\* ---- the tooltip: the event nearest to the pointer (handleMouseMove)
\* rect.width of the canvas (w-full: set by the page layout)
CanvasWidth == 400
Reach == 20
TooltipWidth == 120
TooltipHeight == 60

\* A projection is what a handler or a drawing derives before its loop: the
\* time at x = 0, timeScale = width / span, the midi of the top key, midiRange
\* and keyHeight = height / midiRange.
Projection(start, span, maxMidi, midiRange) ==
    [start |-> start, timeScale |-> Fdiv(Num(CanvasWidth), span),
     maxMidi |-> maxMidi, midiRange |-> midiRange,
     keyHeight |-> Fdiv(Num(CanvasHeight), Num(midiRange))]

\* where event d is put: dataX = (d.time - start) * timeScale (PianoRoll.tsx
\* has start = 0: d.time * timeScale).  With a span of 0 timeScale is Infinity
\* and dataX is NaN (0 * Infinity) or Infinity.
dataX(d, proj) == Fmul(Fsub(Seconds(d.time), proj.start), proj.timeScale)
\* dataY = (maxMidi - d.midi) * keyHeight + keyHeight / 2
dataY(d, proj) ==
    Fadd(Fmul(Num(proj.maxMidi - d.midi), proj.keyHeight), Fdiv(proj.keyHeight, Num(2)))
projected(d, proj) == [x |-> dataX(d, proj), y |-> dataY(d, proj)]

\* Math.sqrt(dx ** 2 + dy ** 2), a square being the rounded product
hypot(dx, dy) == Fsqrt(Fadd(Fmul(dx, dx), Fmul(dy, dy)))

\* Math.sqrt((x - dataX) ** 2 + (y - dataY) ** 2)
distance(x, y, d, proj) ==
    hypot(Fsub(Num(x), dataX(d, proj)), Fsub(Num(y), dataY(d, proj)))

\* Infinity, the initial minDistance
Infinity == Inf(FALSE)

\* the turn of the loop taking a later event at an equal distance
MutTie_nearer(found, i, dist) ==
    IF ~Flt(found.minDistance, dist) /\ Flt(dist, Num(Reach))
    THEN [nearestData |-> i, minDistance |-> dist]
    ELSE found

\* one turn of the forEach loop, for event i at distance dist: nearestData (an
\* index, 0 for null) and minDistance after it
nearer(found, i, dist) ==
    IF Flt(dist, found.minDistance) /\ Flt(dist, Num(Reach))
    THEN [nearestData |-> i, minDistance |-> dist]
    ELSE found

RECURSIVE nearestFrom(_, _, _, _, _, _)
\* the forEach loop from event i on: the index of nearestData, 0 for null
nearestFrom(events, i, x, y, proj, found) ==
    IF i > Len(events) THEN found.nearestData
    ELSE nearestFrom(events, i + 1, x, y, proj,
                     nearer(found, i, distance(x, y, events[i], proj)))

\* where the tooltip is put for a pointer at x: right of it, or left if cut off
tooltipX(x) == IF x + 10 + TooltipWidth > CanvasWidth THEN x - TooltipWidth - 10 ELSE x + 10
\* where the tooltip is put for a pointer at y: above it, or below if cut off
tooltipY(y) ==
    LET below == IF y - 40 < 0 THEN y + 10 ELSE y - 40
    IN  IF below + TooltipHeight > CanvasHeight THEN y - TooltipHeight - 10 ELSE below

\* setTooltip after the loop: the event found is shown, or the tooltip hidden
shownTooltip(events, nearestData, x, y, prev) ==
    IF nearestData # 0
    THEN [x |-> tooltipX(x), y |-> tooltipY(y), note |-> events[nearestData].note,
          frequency |-> events[nearestData].frequency,
          time |-> events[nearestData].time, visible |-> TRUE]
    ELSE [prev EXCEPT !.visible = FALSE]

\* the tooltip state a pointer move leaves, given the events it searched
movedTooltip(events, x, y, proj, prev) ==
    shownTooltip(events,
                 nearestFrom(events, 1, x, y, proj,
                             [nearestData |-> 0, minDistance |-> Infinity]),
                 x, y, prev)

\* PianoRoll.tsx: the projection of handleMouseMove, from the whole timeline
hoverProjection(data) ==
    Projection(Zero, Seconds(MaxOver(data, "time")), MaxOver(data, "midi"),
               Max(MaxOver(data, "midi") - MinOver(data, "midi"), MinMidiRange))

handleMouseDown(x, y) ==
    /\ mounted /\ pitchData # <<>>
    /\ dragStart' = Some([x |-> x, y |-> y])
    /\ dragCurrent' = Some([x |-> x, y |-> y])
    /\ isDragging' = TRUE
    /\ tooltip' = [tooltip EXCEPT !.visible = FALSE]
    /\ UNCHANGED <<zoomRange, timeRange, rangeEffect, mounted, recVars, pureVars,
                   listenVars>>

handleMouseMoveWhileDragging(x, y) ==
    /\ mounted /\ pitchData # <<>>
    /\ UNCHANGED <<zoomRange, dragStart, isDragging, timeRange, rangeEffect, mounted>>
    /\ UNCHANGED <<recVars, pureVars, listenVars>>
    /\ IF ~isDragging \/ dragStart = Null
       THEN /\ dragCurrent' = dragCurrent
            /\ tooltip' = movedTooltip(pitchData, x, y, hoverProjection(pitchData),
                                       tooltip)
       ELSE /\ dragCurrent' = Some([x |-> x, y |-> y])
            /\ tooltip' = tooltip

\* PianoRoll.tsx: the pointer leaves the canvas, which is rendered only over a
\* non-empty timeline
handleMouseLeave ==
    /\ mounted /\ pitchData # <<>>
    /\ tooltip' = [tooltip EXCEPT !.visible = FALSE]
    /\ UNCHANGED <<zoomRange, dragStart, dragCurrent, isDragging, timeRange, rangeEffect,
                   mounted>>
    /\ UNCHANGED <<recVars, pureVars, listenVars>>

\* the MIDI number of the pixel row y: Math.round(currentMaxMidi - y / keyHeight)
selectedMidi(currentMaxMidi, y, keyHeight) ==
    Fround(Fsub(Num(currentMaxMidi), Fdiv(Num(y), keyHeight)))

\* setZoomRange of handleMouseUp: the selected keys clamped to the data, if
\* the selection is not empty
clampedZoom(zoom, selectedMinMidi, selectedMaxMidi, dataMinMidi, dataMaxMidi) ==
    IF selectedMinMidi < selectedMaxMidi
    THEN [minMidi |-> Some(Max(selectedMinMidi, dataMinMidi)),
          maxMidi |-> Some(Min(selectedMaxMidi, dataMaxMidi))]
    ELSE zoom

\* the selection of handleMouseUp without the minimum selection size
MutDrag_SelectedZoom(zoom, data, from, to) ==
    LET minY == Min(from.y, to.y)
        maxY == Max(from.y, to.y)
        dataMinMidi == MinOver(data, "midi")
        dataMaxMidi == MaxOver(data, "midi")
        currentMinMidi == OrElse(zoom.minMidi, dataMinMidi)
        currentMaxMidi == OrElse(zoom.maxMidi, dataMaxMidi)
        currentMidiRange == Max(currentMaxMidi - currentMinMidi, MinMidiRange)
        keyHeight == Fdiv(Num(CanvasHeight), Num(currentMidiRange))
    IN  clampedZoom(zoom, selectedMidi(currentMaxMidi, maxY, keyHeight),
                    selectedMidi(currentMaxMidi, minY, keyHeight),
                    dataMinMidi, dataMaxMidi)

\* the zoom range handleMouseUp leaves for a finished drag from `from` to `to`
SelectedZoom(zoom, data, from, to) ==
    LET minX == Min(from.x, to.x)
        maxX == Max(from.x, to.x)
        minY == Min(from.y, to.y)
        maxY == Max(from.y, to.y)
        dataMinMidi == MinOver(data, "midi")
        dataMaxMidi == MaxOver(data, "midi")
        currentMinMidi == OrElse(zoom.minMidi, dataMinMidi)
        currentMaxMidi == OrElse(zoom.maxMidi, dataMaxMidi)
        currentMidiRange == Max(currentMaxMidi - currentMinMidi, MinMidiRange)
        keyHeight == Fdiv(Num(CanvasHeight), Num(currentMidiRange))
    IN  IF maxX - minX < MinDrag \/ maxY - minY < MinDrag THEN zoom
        ELSE clampedZoom(zoom, selectedMidi(currentMaxMidi, maxY, keyHeight),
                         selectedMidi(currentMaxMidi, minY, keyHeight),
                         dataMinMidi, dataMaxMidi)

\* the code puts no lower limit on maxMidi: repeated selections below the data
\* lower it without end, and the model follows it MaxMidiDrop semitones down
ZoomExplored(zoom, data) ==
    IF zoom.maxMidi = Null THEN TRUE
    ELSE zoom.maxMidi[1] >= MinOver(data, "midi") - MaxMidiDrop

handleMouseUp ==
    /\ mounted /\ pitchData # <<>>
    /\ zoomRange' = IF ~isDragging \/ dragStart = Null \/ dragCurrent = Null
                    THEN zoomRange
                    ELSE SelectedZoom(zoomRange, pitchData, dragStart[1], dragCurrent[1])
    /\ ZoomExplored(zoomRange', pitchData)
    /\ isDragging' = FALSE /\ dragStart' = Null /\ dragCurrent' = Null
    /\ UNCHANGED <<tooltip, timeRange, rangeEffect, mounted, recVars, pureVars,
                   listenVars>>

resetZoom ==
    /\ mounted /\ pitchData # <<>>
    /\ ~(zoomRange.minMidi = Null /\ zoomRange.maxMidi = Null)
    /\ zoomRange' = [minMidi |-> Null, maxMidi |-> Null]
    /\ UNCHANGED <<tooltip, dragStart, dragCurrent, isDragging, timeRange, rangeEffect,
                   mounted>>
    /\ UNCHANGED <<recVars, pureVars, listenVars>>

NextZoom ==
    \/ MountPianoRoll
    \/ \E gap \in AppendGaps, frequency \in AppendFreqs : TimelineGrows(gap, frequency)
    \/ \E x \in PointerXs, y \in PointerYs : handleMouseDown(x, y)
    \/ \E x \in PointerXs, y \in PointerYs : handleMouseMoveWhileDragging(x, y)
    \/ handleMouseLeave
    \/ handleMouseUp
    \/ resetZoom
SpecZoom == InitRoll /\ [][NextZoom]_vars


\* ---- the piano roll of RealTimePitchDetector.tsx: time zoom by two sliders
MaxSliderSteps == 20

\* values of a range input with min 0, step 0.01 s and max maxTime, in ms
SliderValues(data) ==
    {SliderStep * k : k \in 0..Min(MaxSliderSteps, MaxOver(data, "time") \div SliderStep)}

\* the slider positions tried, in steps of 0.01 s from the slider's minimum
SliderStops == {k \in {0, 2, 3, 8, 20} : k <= MaxSliderSteps}

\* the effect on [pitchData] and resetZoom: the whole timeline, from 0
FullTimeRange(data, range) ==
    IF Len(data) > 0 THEN [start |-> Zero, end |-> Seconds(MaxOver(data, "time"))]
    ELSE range

\* isZoomed = timeRange.start > 0 || timeRange.end < maxTime
isZoomedOver(data, range) ==
    \/ Fgt(range.start, Zero)
    \/ Flt(range.end, Seconds(MaxOver(data, "time")))
isTimeZoomed == isZoomedOver(pitchData, timeRange)

\* the first commit of the roll: the window is the initial {0, 0} and the
\* effect on [pitchData] is still to run
MountTimeRoll ==
    /\ ~mounted /\ mounted' = TRUE
    /\ rangeEffect' = "mount"
    /\ UNCHANGED <<tooltip, zoomRange, dragStart, dragCurrent, isDragging, timeRange>>
    /\ UNCHANGED <<recVars, pureVars, listenVars>>

\* the parent's new pitchData is committed with the window as it was; the
\* effect on [pitchData] is still to run.  React runs a pending effect before it
\* renders again, so the timeline grows only when none is pending.
TimelineGrowsTime(gap, frequency) ==
    /\ mounted /\ rangeEffect = "idle" /\ Len(pitchData) < MaxViewEvents
    /\ pitchData' = Grown(pitchData, gap, frequency)
    /\ rangeEffect' = "update"
    /\ UNCHANGED <<isRecording, isAnalyzing, mediaRecorderRef, audioContextRef,
                   analyserRef, startTimeRef, animationRef, timerRef, recorderState,
                   contexts, tracks, stopEvents, setups, frames, intervals, timeouts, uploads,
                   now, nextId, writers>>
    /\ UNCHANGED <<tooltip, zoomRange, dragStart, dragCurrent, isDragging, timeRange,
                   mounted, pureVars, listenVars>>

\* the effect on [pitchData], after the commit that scheduled it
timeRangeEffect ==
    /\ mounted /\ rangeEffect # "idle"
    /\ rangeEffect' = "idle"
    /\ timeRange' = FullTimeRange(pitchData, timeRange)
    /\ UNCHANGED <<tooltip, zoomRange, dragStart, dragCurrent, isDragging, mounted>>
    /\ UNCHANGED <<recVars, pureVars, listenVars>>

\* newStart is the slider's value in ms; parseFloat gives its double in seconds
handleStartTimeChange(newStart) ==
    /\ mounted /\ rangeEffect = "idle" /\ pitchData # <<>>
    /\ newStart \in SliderValues(pitchData)
    /\ timeRange' = [start |-> Fmin(Seconds(newStart), Fsub(timeRange.end, MinTimeSpan)),
                     end |-> timeRange.end]
    /\ UNCHANGED <<tooltip, zoomRange, dragStart, dragCurrent, isDragging, rangeEffect,
                   mounted>>
    /\ UNCHANGED <<recVars, pureVars, listenVars>>

\* handleEndTimeChange storing the requested value as it is
MutEnd_handleEndTimeChange(newEnd) ==
    /\ mounted /\ rangeEffect = "idle" /\ pitchData # <<>>
    /\ newEnd \in SliderValues(pitchData)
    /\ timeRange' = [start |-> timeRange.start, end |-> Seconds(newEnd)]
    /\ UNCHANGED <<tooltip, zoomRange, dragStart, dragCurrent, isDragging, rangeEffect,
                   mounted>>
    /\ UNCHANGED <<recVars, pureVars, listenVars>>

handleEndTimeChange(newEnd) ==
    /\ mounted /\ rangeEffect = "idle" /\ pitchData # <<>>
    /\ newEnd \in SliderValues(pitchData)
    /\ timeRange' = [start |-> timeRange.start,
                     end |-> Fmax(Seconds(newEnd), Fadd(timeRange.start, MinTimeSpan))]
    /\ UNCHANGED <<tooltip, zoomRange, dragStart, dragCurrent, isDragging, rangeEffect,
                   mounted>>
    /\ UNCHANGED <<recVars, pureVars, listenVars>>

\* d.time >= timeRange.start && d.time <= timeRange.end
inRange(time, range) == Fge(time, range.start) /\ Fle(time, range.end)

\* pitchData.filter(d => d.time >= timeRange.start && d.time <= timeRange.end)
filteredData(data, range) == SelectSeq(data, LAMBDA d : inRange(Seconds(d.time), range))

MinOctave == 12

\* the piano keys the time roll draws for the filtered events: midiRange rows,
\* the top one for dataMaxMidi, row i for midi dataMaxMidi - i
fittedKeys(events) ==
    LET dataMinMidi == MinOver(events, "midi")
        dataMaxMidi == MaxOver(events, "midi")
        midiRange == Max(dataMaxMidi - dataMinMidi, MinOctave)
    IN  [minMidi |-> dataMaxMidi - midiRange + 1, maxMidi |-> dataMaxMidi,
         midiRange |-> midiRange]

\* pointer positions over the time roll's canvas
HoverXs == {10, 12, 20}
HoverYs == {8, 24}

\* the projection of the time roll's handleMouseMove, from the filtered events
timeProjection(events, range) ==
    Projection(range.start, Fsub(range.end, range.start), MaxOver(events, "midi"),
               fittedKeys(events).midiRange)

\* handleMouseMove over the filtered events: nothing changes when there are none
hoveredTooltip(events, x, y, range, prev) ==
    IF events = <<>> THEN prev
    ELSE movedTooltip(events, x, y, timeProjection(events, range), prev)

handleTimeMouseMove(x, y) ==
    /\ mounted /\ pitchData # <<>>
    /\ UNCHANGED <<zoomRange, dragStart, dragCurrent, isDragging, timeRange, rangeEffect,
                   mounted>>
    /\ UNCHANGED <<recVars, pureVars, listenVars>>
    /\ tooltip' = hoveredTooltip(filteredData(pitchData, timeRange), x, y, timeRange,
                                 tooltip)

\* the time roll: the pointer leaves the canvas, which is rendered only over a
\* non-empty timeline
handleTimeMouseLeave ==
    /\ mounted /\ pitchData # <<>>
    /\ tooltip' = [tooltip EXCEPT !.visible = FALSE]
    /\ UNCHANGED <<zoomRange, dragStart, dragCurrent, isDragging, timeRange, rangeEffect,
                   mounted>>
    /\ UNCHANGED <<recVars, pureVars, listenVars>>

\* resetZoom keeping the start of the window
MutReset_resetTimeZoom ==
    /\ mounted /\ rangeEffect = "idle" /\ pitchData # <<>> /\ isTimeZoomed
    /\ timeRange' = [start |-> timeRange.start,
                     end |-> Seconds(MaxOver(pitchData, "time"))]
    /\ UNCHANGED <<tooltip, zoomRange, dragStart, dragCurrent, isDragging, rangeEffect,
                   mounted>>
    /\ UNCHANGED <<recVars, pureVars, listenVars>>

resetTimeZoom ==
    /\ mounted /\ rangeEffect = "idle" /\ pitchData # <<>> /\ isTimeZoomed
    /\ timeRange' = FullTimeRange(pitchData, timeRange)
    /\ UNCHANGED <<tooltip, zoomRange, dragStart, dragCurrent, isDragging, rangeEffect,
                   mounted>>
    /\ UNCHANGED <<recVars, pureVars, listenVars>>

NextTime ==
    \/ MountTimeRoll
    \/ \E gap \in AppendGaps, frequency \in AppendFreqs :
          TimelineGrowsTime(gap, frequency)
    \/ timeRangeEffect
    \/ \E k \in SliderStops : handleStartTimeChange(SliderStep * k)
    \/ \E k \in SliderStops : handleEndTimeChange(SliderStep * k)
    \/ resetTimeZoom
    \/ \E x \in HoverXs, y \in HoverYs : handleTimeMouseMove(x, y)
    \/ handleTimeMouseLeave
SpecTime == InitRoll /\ [][NextTime]_vars

\* C9: whenever the MIDI bounds of the pitch zoom are set, minMidi < maxMidi,
\* whatever drag selections and resets came before, also when the selection
\* lies outside the MIDI span of the data and is clamped to it.
C9_PitchRangeNotInverted ==
    (zoomRange.minMidi # Null /\ zoomRange.maxMidi # Null) =>
        zoomRange.minMidi[1] < zoomRange.maxMidi[1]

\* C10: in every state of the mounted time-range piano roll over a non-empty
\* timeline, once the effect on the timeline has run, the time window spans at
\* least 0.1 s.
C10_MinimumTimeSpan ==
    (mounted /\ rangeEffect = "idle" /\ pitchData # <<>>) =>
        Fge(Fsub(timeRange.end, timeRange.start), MinTimeSpan)


\* C11: setting the end of the time window with any requested value stores
\* max(requested, start + 0.1 s): the start is kept, the end is at least the
\* request and at least start + 0.1 s, and it is one of the two (start + 0.1
\* being the sum as the doubles of the code give it).
C11_EndClamped ==
    [][\A k \in SliderStops :
          handleEndTimeChange(SliderStep * k) =>
              /\ timeRange'.start = timeRange.start
              /\ Fge(timeRange'.end, Seconds(SliderStep * k))
              /\ Fge(timeRange'.end, Fadd(timeRange.start, MinTimeSpan))
              /\ timeRange'.end \in {Seconds(SliderStep * k),
                                     Fadd(timeRange.start, MinTimeSpan)}]_vars

\* C11 witness: over a timeline ending at 0.092 s, where the slider offers no
\* value above 0.09 s, the end was set: the window is [0, 0.1]
C11_Witness ==
    /\ mounted /\ pitchData # <<>>
    /\ MaxOver(pitchData, "time") = 92
    /\ timeRange = [start |-> Zero, end |-> MinTimeSpan]


\* C12: reset returns the viewport to exactly Unzoomed from any state the
\* selections reached.  Time roll: the window is [0, max event time], the zoomed
\* indicator is false and every event of the timeline is in the filtered data
\* the pitch range is fitted to.  Pitch roll: both MIDI bounds are unset, so
\* the rendered range falls back to the data range of the whole timeline.
C12_ResetUnzoomed ==
    [][/\ resetTimeZoom =>
            /\ timeRange' = [start |-> Zero, end |-> Seconds(MaxOver(pitchData, "time"))]
            /\ ~isZoomedOver(pitchData', timeRange')
            /\ filteredData(pitchData', timeRange') = pitchData
       /\ resetZoom =>
            /\ zoomRange' = [minMidi |-> Null, maxMidi |-> Null]
            /\ OrElse(zoomRange'.minMidi, MinOver(pitchData', "midi"))
                  = MinOver(pitchData, "midi")
            /\ OrElse(zoomRange'.maxMidi, MaxOver(pitchData', "midi"))
                  = MaxOver(pitchData, "midi")]_vars

\* C12 witness: both sliders were moved inward (window [0.2, 0.2 + 0.1] of a
\* timeline ending at 0.4 s), the zoomed indicator is on and reset is offered
C12_Witness ==
    /\ mounted /\ pitchData # <<>>
    /\ MaxOver(pitchData, "time") = 400
    /\ rangeEffect = "idle"
    /\ timeRange = [start |-> Seconds(200), end |-> Fadd(Seconds(200), MinTimeSpan)]
    /\ isTimeZoomed


\* a drag is in progress whose rectangle is narrower or lower than MinDrag
SmallDrag ==
    /\ isDragging /\ dragStart # Null /\ dragCurrent # Null
    /\ IF dragStart = Null \/ dragCurrent = Null THEN FALSE
       ELSE LET from == dragStart[1]
                to == dragCurrent[1]
            IN  \/ Max(from.x, to.x) - Min(from.x, to.x) < MinDrag
                \/ Max(from.y, to.y) - Min(from.y, to.y) < MinDrag

\* C13: releasing a drag smaller than 20 px is a no-op: the pitch bounds stay
\* exactly as they were and the drag state is cleared.
C13_SmallDragNoOp ==
    [][(SmallDrag /\ handleMouseUp) =>
          /\ zoomRange' = zoomRange
          /\ ~isDragging' /\ dragStart' = Null /\ dragCurrent' = Null]_vars

\* C13 witness: with pitch bounds already set by an earlier selection, a drag
\* 10 px wide and 128 px high is about to be released
C13_Witness ==
    /\ mounted /\ SmallDrag
    /\ zoomRange.minMidi # Null /\ zoomRange.maxMidi # Null
    /\ dragStart = Some([x |-> 0, y |-> 0])
    /\ dragCurrent = Some([x |-> 10, y |-> 128])


\* the window was a selection of the user before the last event was appended
WindowSelected ==
    LET before == SubSeq(pitchData, 1, Len(pitchData) - 1)
    IN  /\ before # <<>>
        /\ \/ Fgt(timeRange.start, Zero)
           \/ Flt(timeRange.end, Seconds(MaxOver(before, "time")))

\* C14: appending an event to the timeline leaves the selected time window and
\* the pitch bounds unchanged, also when the effect that follows the append has
\* run: only selections and resets change the viewport.
C14_AppendKeepsViewport ==
    [][/\ (mounted /\ pitchData' # pitchData) =>
              (timeRange' = timeRange /\ zoomRange' = zoomRange)
       /\ (mounted /\ rangeEffect = "update" /\ WindowSelected /\ timeRangeEffect) =>
              (timeRange' = timeRange /\ zoomRange' = zoomRange)]_vars


\* time windows a timeline of RecordingMode is filtered by
ProbeWindows ==
    {w \in [start : {0, 40, 50}, end : {0, 45, 50, AutoStop * 1000}] : w.start <= w.end}

\* s is data[i..j] for some i, j: one contiguous stretch of data
IsStretch(s, data) ==
    \E i \in 1..(Len(data) + 1), j \in 0..Len(data) : s = SubSeq(data, i, j)

\* C17: filtering the timeline by [start, end] returns exactly the events with
\* start <= time <= end, bounds inclusive, in timeline order, and they form one
\* contiguous sub-sequence of the timeline.
C17_FilterContiguous ==
    \A w \in ProbeWindows :
        LET kept == filteredData(pitchData, [start |-> Seconds(w.start),
                                             end |-> Seconds(w.end)])
            inside == {i \in DOMAIN pitchData :
                          pitchData[i].time >= w.start /\ pitchData[i].time <= w.end}
        IN  /\ Len(kept) = Cardinality(inside)
            /\ \A k \in DOMAIN kept : kept[k].time >= w.start /\ kept[k].time <= w.end
            /\ IsStretch(kept, pitchData)


\* C18: the pitch range fitted to a non-empty set of filtered events contains
\* every event's midi and spans at least 12 semitones; when the data span is
\* below 12 the deficit is split between top and bottom, downward first.
C18_AutoFitSplitsDeficit ==
    (mounted /\ filteredData(pitchData, timeRange) # <<>>) =>
        LET events == filteredData(pitchData, timeRange)
            dataMinMidi == MinOver(events, "midi")
            dataMaxMidi == MaxOver(events, "midi")
            fit == fittedKeys(events)
            below == dataMinMidi - fit.minMidi
            above == fit.maxMidi - dataMaxMidi
        IN  /\ \A i \in DOMAIN events :
                  fit.minMidi <= events[i].midi /\ events[i].midi <= fit.maxMidi
            /\ fit.maxMidi - fit.minMidi + 1 >= MinOctave
            /\ (MinOctave - (dataMaxMidi - dataMinMidi) >= 2) =>
                  (above >= 1 /\ below >= above)


\* C19: a frequency that is <= 0 or below 20 Hz maps to "no note" in both
\* outputs: the label is empty and the MIDI result is not the MIDI number 0.
C19_NoNoteBelowFloor ==
    (called /\ Flt(arg, Num(MinAudible))) => (result.note = "" /\ result.midi # 0)


\* ------------------------------------------------ Note Mapper round trip
InitRoundTrip == InitCall /\ arg \in MidiLow..MidiHigh
RoundTrip ==
    /\ ~called /\ called' = TRUE
    /\ result' = PitchEvent(0, frequencyOf(arg))
    /\ UNCHANGED <<arg, recVars, viewVars, listenVars>>
NextRoundTrip == RoundTrip
SpecRoundTrip == InitRoundTrip /\ [][NextRoundTrip]_vars

\* C20: for every midi in [21, 108] the equal-temperament frequency of midi maps
\* back to the same midi (and to the label of that midi); 440.0 Hz maps to
\* "A4" / 69 and 261.63 Hz to "C4" / 60.
C20_RoundTrip ==
    /\ called => (result.midi = arg /\ result.note = NoteOfMidi(arg))
    /\ frequencyToMidi(Hz(440000)) = 69 /\ frequencyToNote(Hz(440000)) = "A4"
    /\ frequencyToMidi(Hz(261630)) = 60 /\ frequencyToNote(Hz(261630)) = "C4"

\* C20 witness: midi 69 was mapped to 440 Hz and back to 69, "A4"
C20_Witness ==
    /\ called /\ arg = 69
    /\ result.frequency = 440000 /\ result.midi = 69 /\ result.note = "A4"


\* the tooltip shows event d
Shows(tip, d) ==
    tip.visible /\ tip.time = d.time /\ tip.frequency = d.frequency /\ tip.note = d.note

\* the indices of the events at the minimum distance from the pointer
Closest(events, x, y, proj) ==
    {i \in DOMAIN events :
        \A j \in DOMAIN events :
            ~Flt(distance(x, y, events[j], proj), distance(x, y, events[i], proj))}

\* C15: a pointer move over the time roll finds, among the events of the
\* filtered time range only, an event at the minimum distance from the pointer,
\* and finds none exactly when that minimum distance exceeds 20 px.
C15_NearestWithinReach ==
    [][\A x \in HoverXs, y \in HoverYs :
          (/\ Fgt(timeRange.end, timeRange.start)
           /\ filteredData(pitchData, timeRange) # <<>>
           /\ handleTimeMouseMove(x, y)) =>
              LET events == filteredData(pitchData, timeRange)
                  proj == timeProjection(events, timeRange)
                  best == Closest(events, x, y, proj)
              IN  IF \E i \in best : Fle(distance(x, y, events[i], proj), Num(Reach))
                  THEN \E i \in best : Shows(tooltip', events[i])
                  ELSE ~tooltip'.visible]_vars

\* C16: when several events are at the same minimum distance from the pointer,
\* the one found is the first of them in timeline order.
C16_FirstWinsTies ==
    [][\A x \in HoverXs, y \in HoverYs :
          (/\ tooltip'.visible
           /\ tooltip'.x = tooltipX(x) /\ tooltip'.y = tooltipY(y)
           /\ filteredData(pitchData, timeRange) # <<>>
           /\ handleTimeMouseMove(x, y)) =>
              LET events == filteredData(pitchData, timeRange)
                  best == Closest(events, x, y, timeProjection(events, timeRange))
                  first == CHOOSE i \in best : \A j \in best : i <= j
              IN  Shows(tooltip', events[first])]_vars

\* C16 witness: over the events at 0 s (440 Hz) and 0.02 s (441 Hz), drawn 20 px
\* apart on the same key, the pointer at (10, 8) is equally far from both: the
\* tooltip shows the event at 0 s
C16_Witness ==
    /\ mounted /\ Len(pitchData) = 3
    /\ pitchData[1].frequency = 440000 /\ pitchData[2].frequency = 441000
    /\ pitchData[1].midi = pitchData[2].midi
    /\ timeRange = [start |-> Zero, end |-> Seconds(400)]
    /\ tooltip = [x |-> 20, y |-> 18, note |-> "A4", frequency |-> 440000,
                  time |-> 0, visible |-> TRUE]


\* C21: a frame whose length is not the configured frame length N is refused:
\* the estimator returns no frequency for it.
C21_WrongLengthRefused ==
    (called /\ arg.len # FftSize) => result = NoPitch


\* C22: during live capture at most one pitch-collection callback is pending:
\* frames are never queued, one loop reads one frame at a time.
C22_OneCallbackPending ==
    Cardinality(frames) <= 1


\* ------------------------------------------------- the piano rolls' drawing
\* the literal 0.2 of `nextData.time - data.time < 0.2`
ConnectGap == Fdiv(Num(1), Num(5))

\* the forEach of the drawing with a looser gap test
MutGap_connected(events) ==
    {index \in 1..(Len(events) - 1) :
        Fle(Fsub(Seconds(events[index + 1].time), Seconds(events[index].time)),
            ConnectGap)}

\* the indices whose point is joined to the next point by a stroke
connected(events) ==
    {index \in 1..(Len(events) - 1) :
        Flt(Fsub(Seconds(events[index + 1].time), Seconds(events[index].time)),
            ConnectGap)}

RECURSIVE gridFrom(_, _, _)
\* for (t = first; t <= end; t += interval): the times of the grid lines
gridFrom(t, end, interval) ==
    IF Fle(t, end) THEN <<t>> \o gridFrom(Fadd(t, Num(interval)), end, interval)
    ELSE <<>>

\* timeSpan > 30 ? 10 : timeSpan > 10 ? 5 : 1
gridInterval(timeSpan) ==
    IF Fgt(timeSpan, Num(30)) THEN 10 ELSE IF Fgt(timeSpan, Num(10)) THEN 5 ELSE 1

\* what the time roll's effect draws for pitchData = data and timeRange = range
\* (nothing at all for an empty timeline: the effect returns)
drawTimeRoll(data, range) ==
    LET events == filteredData(data, range)
        gridStep == gridInterval(Fsub(range.end, range.start))
        first == Fmul(Num(Fceil(Fdiv(range.start, Num(gridStep)))), Num(gridStep))
    IN  IF data = <<>> \/ events = <<>>
        THEN [events |-> <<>>, points |-> <<>>, lines |-> {}, grid |-> <<>>]
        ELSE [events |-> events,
              points |-> [i \in DOMAIN events |->
                            projected(events[i], timeProjection(events, range))],
              lines |-> connected(events),
              grid |-> gridFrom(first, range.end, gridStep)]

\* PianoRoll.tsx: the projection of the drawing, with the zoom range if set
drawProjection(data, zoom) ==
    LET minMidi == OrElse(zoom.minMidi, MinOver(data, "midi"))
        maxMidi == OrElse(zoom.maxMidi, MaxOver(data, "midi"))
    IN  Projection(Zero, Seconds(MaxOver(data, "time")), maxMidi,
                   Max(maxMidi - minMidi, MinMidiRange))

\* PianoRoll.tsx: what the effect draws for pitchData = data and zoomRange = zoom
drawPianoRoll(data, zoom) ==
    IF data = <<>>
    THEN [events |-> <<>>, points |-> <<>>, lines |-> {}, grid |-> <<>>]
    ELSE [events |-> data,
          points |-> [i \in DOMAIN data |-> projected(data[i], drawProjection(data, zoom))],
          lines |-> connected(data),
          grid |-> gridFrom(Zero, Seconds(MaxOver(data, "time")), 5)]

\* the inputs of one drawing
DrawTimes == {<<0>>, <<0, 190, 390>>, <<0, 200, 400>>, <<0, 199, 10001>>,
              <<5000, 5200, 40000>>, <<0, 30001>>, <<250, 450, 8000>>,
              <<100, 300, 501>>}
DrawMidis == {<<60, 60, 60>>, <<72, 60, 48>>, <<60, 66, 72>>, <<60, 61, 85>>}
DrawWindows ==
    {[start |-> s, end |-> e] :
        s \in {0, 2500, 5000}, e \in {400, 8000, 10000, 10001, 30000, 30001, 40000}}
DrawZooms == {[minMidi |-> Null, maxMidi |-> Null],
              [minMidi |-> Some(55), maxMidi |-> Some(65)],
              [minMidi |-> Some(40), maxMidi |-> Some(90)]}
DrawTimeline(times, midis) ==
    [i \in 1..Len(times) |-> PitchEvent(times[i], frequencyOf(midis[i]))]
DrawTimelines == {DrawTimeline(times, midis) : times \in DrawTimes, midis \in DrawMidis}
DrawInputs ==
    {[roll |-> "time", data |-> data, range |-> range] :
        data \in DrawTimelines, range \in DrawWindows}
    \cup {[roll |-> "pitch", data |-> data, zoom |-> zoom] :
        data \in DrawTimelines, zoom \in DrawZooms}

InitDraw == InitCall /\ arg \in DrawInputs
DrawTimeRoll ==
    /\ ~called /\ arg.roll = "time" /\ called' = TRUE
    /\ result' = drawTimeRoll(arg.data, [start |-> Seconds(arg.range.start),
                                         end |-> Seconds(arg.range.end)])
    /\ UNCHANGED <<arg, recVars, viewVars, listenVars>>
DrawPianoRoll ==
    /\ ~called /\ arg.roll = "pitch" /\ called' = TRUE
    /\ result' = drawPianoRoll(arg.data, arg.zoom)
    /\ UNCHANGED <<arg, recVars, viewVars, listenVars>>
NextDraw == DrawTimeRoll \/ DrawPianoRoll
SpecDraw == InitDraw /\ [][NextDraw]_vars

\* C23: two consecutive events of the displayed sequence are joined by a stroke
\* if and only if the time of the later less the time of the earlier, both in
\* seconds as the code holds them, is less than 0.2; a gap of 0.2 s is a break.
C23_ConnectedIffClose ==
    called =>
        \A i \in 1..(Len(result.events) - 1) :
            (i \in result.lines) <=>
                Flt(Fsub(Seconds(result.events[i + 1].time),
                         Seconds(result.events[i].time)), Fdiv(Num(2), Num(10)))

\* C23 witness: the time roll drew events at 0 s, 0.2 s and 0.4 s over the
\* window [0, 10] s: no stroke crosses either gap of 0.2 s
C23_Witness ==
    /\ called /\ arg.roll = "time" /\ arg.range = [start |-> 0, end |-> 10000]
    /\ Len(result.events) = 3
    /\ result.events[1].time = 0 /\ result.events[2].time = 200
    /\ result.events[3].time = 400
    /\ result.lines = {}


\* the interval the adaptive grid prescribes for a span, ms
AdaptiveInterval(span) ==
    IF span > 30000 THEN 10000 ELSE IF span > 10000 THEN 5000 ELSE 1000

\* the multiples of interval in [lo, hi], lo >= 0
Multiples(interval, lo, hi) ==
    {t \in {k * interval : k \in 0..(hi \div interval)} : t >= lo}

\* the window a drawing shows: the time range, or [0, maxTime] in PianoRoll.tsx
DrawnWindow ==
    IF arg.roll = "time" THEN arg.range
    ELSE [start |-> 0, end |-> MaxOver(arg.data, "time")]

\* C24: the grid interval of a drawn window is 10 s for a span over 30 s, 5 s
\* for a span over 10 s and up to 30 s, 1 s otherwise, and the grid lines are
\* the multiples of the interval inside the window.
C24_AdaptiveGrid ==
    (called /\ result.events # <<>>) =>
        {result.grid[i] : i \in DOMAIN result.grid}
            = {Seconds(t) :
                  t \in Multiples(AdaptiveInterval(DrawnWindow.end - DrawnWindow.start),
                                  DrawnWindow.start, DrawnWindow.end)}


\* C25: a timer tick of session s at or after 60 s of recording stops the
\* recording: afterwards that timer is cleared, the session's MediaRecorder is
\* no longer recording, isRecording is false, and a pitch-collection callback
\* that runs while nothing is recording does not request another frame.
C25_AutoStop ==
    [][/\ \A s \in Ids :
            (/\ s \in intervals
             /\ now - startTimeRef >= AutoStop * 1000
             /\ TimerTick(s)) =>
                /\ s \notin intervals'
                /\ recorderState'[s] # "recording"
                /\ ~isRecording'
       /\ \A s \in Ids, tau \in LiveTaus :
            (~isRecording /\ collectPitchData(s, tau)) => s \notin frames']_vars


\* C26: the delayed cleanup of a stopped session leaves a recording that has
\* been started since alone: it does not close that recording's audio context
\* and does not cancel its pending pitch-collection callback.
C26_CleanupOnlyStoppedSession ==
    [][(/\ isRecording /\ mediaRecorderRef # 0
        /\ recorderState[mediaRecorderRef] = "recording"
        /\ Cleanup) =>
           /\ (mediaRecorderRef \in contexts => mediaRecorderRef \in contexts')
           /\ (mediaRecorderRef \in frames => mediaRecorderRef \in frames')]_vars


\* --------------------------------------------------- RealTimePitchDetector
\* what the listener's handlers leave alone
listenIdle == <<viewVars, pureVars, isRecording, isAnalyzing, pitchData, writers,
                mediaRecorderRef, startTimeRef, timerRef, recorderState, intervals,
                stopEvents, timeouts, uploads, now>>

\* lines 34-43 of detectPitchLoop: the note and frequency shown for a frame
Detected(tau) ==
    LET frequency == getPitchFromBuffer(LiveFrame(tau))
    IN  IF accepted(frequency)
        THEN [note |-> frequencyToNote(Hz(frequency)), frequency |-> frequency]
        ELSE [note |-> "", frequency |-> 0]

\* lags of the frames the listener reads: those of LiveTaus and 882 Hz, 588 Hz,
\* 294 Hz, 220.5 Hz
ListenTaus == LiveTaus \cup {1000, 1500, 3000, 4000}

\* startListening up to its await: lines 19-21, the button showing "start"
ClickListen ==
    /\ ~unmounted /\ ~isListening
    /\ nextId <= MaxProducers
    /\ contexts' = contexts \cup {nextId}
    /\ setups' = setups \cup {nextId}
    /\ nextId' = nextId + 1
    /\ UNCHANGED <<listenIdle, listenVars, audioContextRef, analyserRef, animationRef,
                   tracks, frames>>

\* startListening after setupAudioContext() resolved: lines 23-49, with the
\* first, synchronous call of detectPitchLoop on a frame of lag tau
ListenGranted(s, tau) ==
    /\ s \in setups
    /\ setups' = setups \ {s}
    /\ streams' = streams \cup {s}
    /\ tracks' = tracks \cup {s}
    /\ audioContextRef' = s /\ mediaStreamRef' = s /\ analyserRef' = s
    /\ isListening' = SetState(isListening, TRUE)
    /\ currentFrequency' = SetState(currentFrequency, Detected(tau).frequency)
    /\ currentNote' = SetState(currentNote, Detected(tau).note)
    /\ animationRef' = s /\ frames' = frames \cup {s}
    /\ UNCHANGED <<listenIdle, unmounted, contexts, nextId>>

\* getUserMedia rejected: the catch of lines 50-53 (setError only)
ListenDenied(s) ==
    /\ s \in setups
    /\ setups' = setups \ {s}
    /\ UNCHANGED <<listenIdle, listenVars, audioContextRef, analyserRef, animationRef,
                   contexts, tracks, frames, nextId>>

\* detectPitchLoop run by requestAnimationFrame for the session s that asked
detectPitchLoop(s, tau) ==
    /\ s \in frames
    /\ IF analyserRef = 0
       THEN /\ frames' = frames \ {s}
            /\ UNCHANGED <<currentFrequency, currentNote, animationRef>>
       ELSE /\ currentFrequency' = SetState(currentFrequency, Detected(tau).frequency)
            /\ currentNote' = SetState(currentNote, Detected(tau).note)
            /\ animationRef' = s /\ frames' = frames
    /\ UNCHANGED <<listenIdle, isListening, mediaStreamRef, streams, unmounted,
                   audioContextRef, analyserRef, contexts, tracks, setups, nextId>>

\* lines 56-72 of stopListening: the refs are released
stopListeningRefs ==
    /\ IF animationRef # 0
       THEN frames' = frames \ {animationRef} /\ animationRef' = 0
       ELSE UNCHANGED <<frames, animationRef>>
    /\ IF mediaStreamRef # 0
       THEN tracks' = tracks \ {mediaStreamRef} /\ mediaStreamRef' = 0
       ELSE UNCHANGED <<tracks, mediaStreamRef>>
    /\ IF audioContextRef # 0
       THEN contexts' = contexts \ {audioContextRef} /\ audioContextRef' = 0
       ELSE UNCHANGED <<contexts, audioContextRef>>
    /\ analyserRef' = 0
    /\ UNCHANGED <<listenIdle, streams, setups, nextId>>

\* the body of stopListening: lines 55-76
stopListening ==
    /\ stopListeningRefs
    /\ isListening' = SetState(isListening, FALSE)
    /\ currentNote' = SetState(currentNote, "")
    /\ currentFrequency' = SetState(currentFrequency, 0)

\* the button showing "stop"
ClickStopListening ==
    /\ ~unmounted /\ isListening
    /\ stopListening
    /\ UNCHANGED unmounted

\* the cleanup of the effect of lines 78-82: the mode is switched away.
\* stopListening releases the refs; React drops the three state updates of the
\* component it is removing
UnmountListener ==
    /\ ~unmounted
    /\ stopListeningRefs
    /\ UNCHANGED <<isListening, currentNote, currentFrequency>>
    /\ unmounted' = TRUE

NextListen ==
    \/ ClickListen
    \/ \E s \in Ids, tau \in ListenTaus : ListenGranted(s, tau)
    \/ \E s \in Ids : ListenDenied(s)
    \/ \E s \in Ids, tau \in ListenTaus : detectPitchLoop(s, tau)
    \/ ClickStopListening
    \/ UnmountListener

SpecListen == Init /\ [][NextListen]_vars

\* C27: whenever the listener is not listening (never started, stopped by a
\* click, or unmounted), every stream startListening opened has its tracks
\* stopped and its audio context closed, no detection callback is pending, and
\* the page shows no note and frequency 0.
C27_StoppedReleasesAll ==
    (unmounted \/ ~isListening) =>
        /\ tracks = {}
        /\ streams \cap contexts = {}
        /\ frames = {}
        /\ currentNote = "" /\ currentFrequency = 0


\* C28: unmounting RecordingMode while a recording is active releases the
\* capture: the MediaRecorder is stopped, the microphone tracks are stopped, the
\* timer and the pending frame callback are cancelled; and once unmounted
\* nothing is appended to the timeline.
C28_UnmountReleasesCapture ==
    [][/\ (/\ isRecording /\ mediaRecorderRef # 0
           /\ recorderState[mediaRecorderRef] = "recording"
           /\ Unmount) =>
              /\ Recording' = {}
              /\ tracks' = {}
              /\ intervals' = {}
              /\ frames' = {}
       /\ unmounted => pitchData' = pitchData]_vars


\* 0 <= y <= height for a drawn point
InsideCanvas(point) ==
    Fge(point.y, Zero) /\ Fle(point.y, Num(CanvasHeight))

\* C29: every event the time roll draws is at a vertical position inside the
\* canvas, 0 <= y <= height, for every timeline and time range, the lowest
\* event included when the MIDI span reaches the minimum span.
C29_PointsInsideCanvas ==
    (mounted /\ pitchData # <<>>) =>
        LET drawn == drawTimeRoll(pitchData, timeRange)
        IN  \A i \in DOMAIN drawn.points : InsideCanvas(drawn.points[i])

\* C30: in every viewport state of PianoRoll.tsx, also while a pitch zoom range
\* is set, the tooltip's lookup projects events with the mapping the drawing
\* uses: same top MIDI, same MIDI span (key height), same time scale.
C30_TooltipUsesDrawnMapping ==
    (mounted /\ pitchData # <<>>) =>
        hoverProjection(pitchData) = drawProjection(pitchData, zoomRange)

=============================================================================
